---------------------------- MODULE Spec2Model ----------------------------
(***************************************************************************)
(* A model of the gpu-vmm unified-virtual-memory simulator (namespace      *)
(* uvm_sim): the VirtualMemoryManager facade and the subsystems it owns    *)
(* (PageTable, PageAllocator, TLB, replacement policies,                   *)
(* MigrationManager's synchronous migrations).                             *)
(*                                                                         *)
(* Every facade method is an operator from a state record to a result      *)
(* record [st |-> the state after the call, ret |-> the value returned],   *)
(* written statement by statement from the C++.  An action of the          *)
(* specification applies one method to the current state and commits the   *)
(* result.  Properties of "after op(x)" are stated over these operators.   *)
(*                                                                         *)
(* Abstractions, all of values no modelled branch reads:                   *)
(*   - timestamps (access_timestamp_us, TLB timestamps in the facade) and  *)
(*     access_count are left out of the page-table entry;                  *)
(*   - a migration's elapsed time is a choice from MigTimes;               *)
(*   - addresses are small integers (TLC integers are 32 bit wide): the    *)
(*     host pool starts at CpuPoolBase, the device range at GpuBase.       *)
(***************************************************************************)
EXTENDS Integers, Sequences, FiniteSets, TLC

\* ------------------------------------------------------------------ bounds

\* config_.page_size, in bytes
PageSize == 2
\* config_.gpu_memory / config_.page_size: slots of the device pool
GpuPoolPages == 2
\* VPNs issued before allocate is no longer taken, and the cap on the
\* replacement policy's candidate containers
MaxVpn == 3
\* cap on every performance counter that counts events
MaxCount == 1
\* longest buffer, in bytes, handed to read_from_vaddr / write_to_vaddr
MaxIoBytes == 2
\* address malloc returned for the host pool
CpuPoolBase == 16
\* config_.tlb_size and config_.tlb_associativity
TlbSize == 4
TlbAssoc == 2
\* config_.virtual_address_space / config_.page_size
VirtualSpacePages == 8

\* ------------------------------------------------------- program constants

\* the device range's base address 0x100000000 (scaled to fit a TLC integer)
GpuBase == 4096
\* LRUPolicy / CLOCKPolicy max_pages as constructed by the facade
PolicyMaxPages == 65536
\* hash_vpn's offset basis 2166136261 and prime 16777619, as 16-bit halves
FnvOffsetHi == 33052
FnvOffsetLo == 40389
FnvPrimeHi == 256
FnvPrimeLo == 403

NullPtr == 0

\* config_.max_concurrent_migrations: the threads of migration_workers_
NumWorkers == 2
Workers == 1..NumWorkers
\* a default-constructed migration_job: its function is empty
NoJob == [vpn |-> 0, cpu_addr |-> NullPtr, gpu_addr |-> 0, fn |-> "none"]
\* the threads that call the facade
NumCallers == 2
Callers == 1..NumCallers

\* a host pool with one slot more than the device pool
CpuPoolPagesLarger == GpuPoolPages + 1

\* the host pool is sized from gpu_memory too
CpuPoolPages == GpuPoolPages

CpuPoolBytes == CpuPoolPages * PageSize

\* a host byte never written since malloc
Uninit == "uninit"
Data == {1, 2}
\* the values the write action stores
WriteData == {1}
MigTimes == {1}

VARIABLES
    initialized,      \* initialized_
    policy_kind,      \* config_.replacement_policy
    entries,          \* PageTable::entries_
    cpu_bitmap,       \* PageAllocator::cpu_page_bitmap_
    gpu_bitmap,       \* PageAllocator::gpu_page_bitmap_
    cpu_allocated,    \* PageAllocator::cpu_pages_allocated_
    gpu_allocated,    \* PageAllocator::gpu_pages_allocated_
    host_mem,         \* the bytes of PageAllocator::cpu_pool_
    tlb_sets,         \* TLB::sets_
    tlb_hits,         \* TLB::hits_
    tlb_misses,       \* TLB::misses_
    lru_queue,        \* LRUPolicy::lru_queue_
    active_pages,     \* LRUPolicy::active_pages_
    clock_vec,        \* CLOCKPolicy::clock_hand_vec_
    hand_pos,         \* CLOCKPolicy::hand_pos_
    next_vpn,         \* next_vpn_
    vaddr_map,        \* vaddr_to_vpn_map_
    gpu_resident,     \* gpu_resident_pages_
    perf              \* perf_counters_

\* the threads of the process and what they synchronise on
VARIABLES
    shutdown_flag,    \* MigrationManager::shutdown_
    migration_queue,  \* MigrationManager::migration_queue_
    queue_mutex,      \* the worker holding MigrationManager::queue_mutex_, or 0
    worker_pc,        \* where each thread of migration_workers_ is
    worker_job,       \* migration_job of each worker
    owner_pc,         \* where the thread that owns the MigrationManager is
    manager_mutex,    \* manager_mutex_: its writer (or 0) and its readers
    caller_pc         \* where each thread calling the facade is

data_vars == <<initialized, policy_kind, entries, cpu_bitmap, gpu_bitmap,
               cpu_allocated, gpu_allocated, host_mem, tlb_sets, tlb_hits,
               tlb_misses, lru_queue, active_pages, clock_vec, hand_pos,
               next_vpn, vaddr_map, gpu_resident, perf>>

migration_vars == <<shutdown_flag, migration_queue, queue_mutex, worker_pc,
                    worker_job, owner_pc>>

caller_vars == <<manager_mutex, caller_pc>>

vars == <<data_vars, migration_vars, caller_vars>>

\* the current state as one record
State ==
    [initialized |-> initialized, policy_kind |-> policy_kind,
     entries |-> entries, cpu_bitmap |-> cpu_bitmap, gpu_bitmap |-> gpu_bitmap,
     cpu_allocated |-> cpu_allocated, gpu_allocated |-> gpu_allocated,
     host_mem |-> host_mem, tlb_sets |-> tlb_sets, tlb_hits |-> tlb_hits,
     tlb_misses |-> tlb_misses, lru_queue |-> lru_queue,
     active_pages |-> active_pages, clock_vec |-> clock_vec,
     hand_pos |-> hand_pos, next_vpn |-> next_vpn, vaddr_map |-> vaddr_map,
     gpu_resident |-> gpu_resident, perf |-> perf]

\* the data of the process become those of s
Store(s) ==
    /\ initialized' = s.initialized
    /\ policy_kind' = s.policy_kind
    /\ entries' = s.entries
    /\ cpu_bitmap' = s.cpu_bitmap
    /\ gpu_bitmap' = s.gpu_bitmap
    /\ cpu_allocated' = s.cpu_allocated
    /\ gpu_allocated' = s.gpu_allocated
    /\ host_mem' = s.host_mem
    /\ tlb_sets' = s.tlb_sets
    /\ tlb_hits' = s.tlb_hits
    /\ tlb_misses' = s.tlb_misses
    /\ lru_queue' = s.lru_queue
    /\ active_pages' = s.active_pages
    /\ clock_vec' = s.clock_vec
    /\ hand_pos' = s.hand_pos
    /\ next_vpn' = s.next_vpn
    /\ vaddr_map' = s.vaddr_map
    /\ gpu_resident' = s.gpu_resident
    /\ perf' = s.perf

\* a call made by the only thread there is
Commit(s) == Store(s) /\ UNCHANGED <<migration_vars, caller_vars>>

\* ------------------------------------------------------------ Common.h

vaddr_to_vpn(vaddr) == vaddr \div PageSize

vpn_to_vaddr(vpn) == vpn * PageSize

align_to_page(size) == ((size + PageSize - 1) \div PageSize) * PageSize

\* F applied to the value of x, which is computed once
Then(x, F(_)) == CHOOSE y \in {F(v) : v \in {x}} : TRUE

PerfZero ==
    [total_page_faults |-> 0, cpu_to_gpu_migrations |-> 0,
     gpu_to_cpu_migrations |-> 0, total_bytes_migrated |-> 0,
     total_migration_time_us |-> 0, tlb_hits |-> 0, tlb_misses |-> 0,
     evictions |-> 0, kernel_launches |-> 0, page_prefetches |-> 0]

\* a function with key k removed
MapErase(f, k) == [x \in (DOMAIN f) \ {k} |-> f[x]]

\* a function with f[k] = v, k added when absent
MapPut(f, k, v) == [x \in (DOMAIN f) \cup {k} |-> IF x = k THEN v ELSE f[x]]

\* a sequence without its element at index i (1-based)
SeqErase(q, i) == [j \in 1..(Len(q) - 1) |-> IF j < i THEN q[j] ELSE q[j + 1]]

\* ------------------------------------------------------------ PageTable

PageTableEntry ==
    [resident_on_cpu |-> FALSE, resident_on_gpu |-> FALSE, is_dirty |-> FALSE,
     is_pinned |-> FALSE, is_valid |-> FALSE, cpu_address |-> NullPtr,
     gpu_address |-> 0]

\* lookup_entry: TRUE when it returns an entry
has_entry(s, vpn) == vpn \in DOMAIN s.entries

\* the loop of allocate_vpn_range from index i: [ok, entries]
RECURSIVE allocate_vpn_loop(_, _, _, _)
allocate_vpn_loop(ents, vpn_start, i, num_pages) ==
    IF i >= num_pages THEN [ok |-> TRUE, entries |-> ents]
    ELSE LET vpn == vpn_start + i IN
         IF vpn \in DOMAIN ents THEN [ok |-> FALSE, entries |-> ents]
         ELSE allocate_vpn_loop(
                  MapPut(ents, vpn, [PageTableEntry EXCEPT !.is_valid = TRUE]),
                  vpn_start, i + 1, num_pages)

allocate_vpn_range(s, vpn_start, num_pages) ==
    LET r == allocate_vpn_loop(s.entries, vpn_start, 0, num_pages) IN
    [st |-> [s EXCEPT !.entries = r.entries], ret |-> r.ok]

deallocate_vpn_range(s, vpn_start, num_pages) ==
    [s EXCEPT !.entries =
        [v \in {x \in DOMAIN s.entries :
                   ~(x >= vpn_start /\ x < vpn_start + num_pages)}
            |-> s.entries[v]]]

\* set_cpu_resident that records the address and leaves the flag
set_cpu_address_only(s, vpn, cpu_addr) ==
    IF vpn \in DOMAIN s.entries
    THEN [s EXCEPT !.entries[vpn].cpu_address = cpu_addr]
    ELSE s

set_cpu_resident(s, vpn, cpu_addr) ==
    IF vpn \in DOMAIN s.entries
    THEN [s EXCEPT !.entries[vpn].resident_on_cpu = TRUE,
                   !.entries[vpn].cpu_address = cpu_addr]
    ELSE s

set_gpu_resident(s, vpn, gpu_addr) ==
    IF vpn \in DOMAIN s.entries
    THEN [s EXCEPT !.entries[vpn].resident_on_gpu = TRUE,
                   !.entries[vpn].gpu_address = gpu_addr]
    ELSE s

\* get_all_entries: the VPNs of the valid entries
get_all_entries(s) == {v \in DOMAIN s.entries : s.entries[v].is_valid}

\* --------------------------------------------------------- PageAllocator

\* the first unoccupied slot of a bitmap, or -1
FirstFree(bitmap) ==
    IF \E i \in DOMAIN bitmap : ~bitmap[i]
    THEN CHOOSE i \in DOMAIN bitmap :
             ~bitmap[i] /\ \A j \in DOMAIN bitmap : j < i => bitmap[j]
    ELSE -1

\* allocate_cpu_page that hands out the slot and leaves its bit clear
allocate_cpu_page_unmarked(s) ==
    LET i == FirstFree(s.cpu_bitmap) IN
    IF i >= 0
    THEN [st |-> [s EXCEPT !.cpu_allocated = @ + 1],
          ret |-> CpuPoolBase + i * PageSize]
    ELSE [st |-> s, ret |-> NullPtr]

allocate_cpu_page(s) ==
    LET i == FirstFree(s.cpu_bitmap) IN
    IF i >= 0
    THEN [st |-> [s EXCEPT !.cpu_bitmap[i] = TRUE,
                           !.cpu_allocated = @ + 1],
          ret |-> CpuPoolBase + i * PageSize]
    ELSE [st |-> s, ret |-> NullPtr]

\* config_.cpu_page_pool_size: the bitmap has one bit per page of the pool
cpu_page_pool_size(s) == Cardinality(DOMAIN s.cpu_bitmap) * PageSize

\* deallocate_cpu_page that counts a release whatever the bitmap says
deallocate_cpu_page_unchecked(s, ptr) ==
    IF ptr = NullPtr THEN s
    ELSE LET offset == ptr - CpuPoolBase IN
         IF offset < 0 \/ offset >= cpu_page_pool_size(s) THEN s
         ELSE [s EXCEPT !.cpu_bitmap[offset \div PageSize] = FALSE,
                        !.cpu_allocated = @ - 1]

deallocate_cpu_page(s, ptr) ==
    IF ptr = NullPtr THEN s
    ELSE LET offset == ptr - CpuPoolBase IN
         IF offset < 0 \/ offset >= cpu_page_pool_size(s) THEN s
         ELSE LET page_idx == offset \div PageSize IN
              IF page_idx \in DOMAIN s.cpu_bitmap /\ s.cpu_bitmap[page_idx]
              THEN [s EXCEPT !.cpu_bitmap[page_idx] = FALSE,
                             !.cpu_allocated = @ - 1]
              ELSE s

allocate_gpu_page(s) ==
    LET i == FirstFree(s.gpu_bitmap) IN
    IF i >= 0
    THEN [st |-> [s EXCEPT !.gpu_bitmap[i] = TRUE,
                           !.gpu_allocated = @ + 1],
          ret |-> GpuBase + i * PageSize]
    ELSE [st |-> s, ret |-> 0]

\* deallocate_gpu_page that leaves the slot marked occupied
deallocate_gpu_page_kept(s, gpu_addr) == s

deallocate_gpu_page(s, gpu_addr) ==
    IF gpu_addr < GpuBase THEN s
    ELSE LET page_idx == (gpu_addr - GpuBase) \div PageSize IN
         IF page_idx \in DOMAIN s.gpu_bitmap /\ s.gpu_bitmap[page_idx]
         THEN [s EXCEPT !.gpu_bitmap[page_idx] = FALSE,
                        !.gpu_allocated = @ - 1]
         ELSE s

get_total_cpu_pages(s) == Cardinality(DOMAIN s.cpu_bitmap)

get_total_gpu_pages(s) == Cardinality(DOMAIN s.gpu_bitmap)

get_available_cpu_pages(s) == get_total_cpu_pages(s) - s.cpu_allocated

get_available_gpu_pages(s) == get_total_gpu_pages(s) - s.gpu_allocated

\* ------------------------------------------------------------------ TLB

TlbNumSets == TlbSize \div TlbAssoc

RECURSIVE BitXor(_, _)
BitXor(a, b) ==
    IF a = 0 THEN b
    ELSE IF b = 0 THEN a
    ELSE (((a % 2) + (b % 2)) % 2) + 2 * BitXor(a \div 2, b \div 2)

\* byte i of a 64-bit VPN: (vpn >> (i * 8)) & 0xFF
RECURSIVE VpnByte(_, _)
VpnByte(vpn, i) == IF i = 0 THEN vpn % 256 ELSE VpnByte(vpn \div 256, i - 1)

\* one round of hash_vpn on a 32-bit hash kept as two 16-bit halves:
\* hash ^= byte; hash *= 16777619 (mod 2^32)
FnvRound(h, byte) ==
    LET lo == BitXor(h.lo, byte)
        p  == lo * FnvPrimeLo
    IN [lo |-> p % 65536,
        hi |-> (h.hi * FnvPrimeLo + lo * FnvPrimeHi + p \div 65536) % 65536]

RECURSIVE hash_vpn_loop(_, _, _)
hash_vpn_loop(h, vpn, i) ==
    IF i >= 8 THEN h ELSE hash_vpn_loop(FnvRound(h, VpnByte(vpn, i)), vpn, i + 1)

hash_vpn(vpn) == hash_vpn_loop([hi |-> FnvOffsetHi, lo |-> FnvOffsetLo], vpn, 0)

get_set_index(vpn) ==
    LET h == hash_vpn(vpn) IN
    ((h.hi % TlbNumSets) * (65536 % TlbNumSets) + h.lo) % TlbNumSets

\* index of the first entry of a set with this VPN, or 0
TlbFind(set, vpn) ==
    IF \E i \in 1..Len(set) : set[i].vpn = vpn
    THEN CHOOSE i \in 1..Len(set) :
             set[i].vpn = vpn /\ \A j \in 1..(i - 1) : set[j].vpn # vpn
    ELSE 0

tlb_invalidate(s, vpn) ==
    LET set_idx == get_set_index(vpn)
        i == TlbFind(s.tlb_sets[set_idx], vpn)
    IN IF i = 0 THEN s
       ELSE [s EXCEPT !.tlb_sets[set_idx] = SeqErase(@, i)]

\* TLB::TLB followed by TLB::initialize: empty sets, zero statistics
tlb_initialize(s) ==
    [s EXCEPT !.tlb_sets = [i \in 0..(TlbNumSets - 1) |-> <<>>],
              !.tlb_hits = 0,
              !.tlb_misses = 0]

\* index of the first valid entry of a set with this VPN, or 0
TlbFindValid(set, vpn) ==
    IF \E i \in 1..Len(set) : set[i].valid /\ set[i].vpn = vpn
    THEN CHOOSE i \in 1..Len(set) :
             /\ set[i].valid /\ set[i].vpn = vpn
             /\ \A j \in 1..(i - 1) : ~(set[j].valid /\ set[j].vpn = vpn)
    ELSE 0

\* a lookup that leaves misses_ alone
tlb_lookup_miss_uncounted(s, vpn, t) ==
    LET set_idx == get_set_index(vpn)
        i == TlbFindValid(s.tlb_sets[set_idx], vpn)
    IN IF i # 0
       THEN [st |-> [s EXCEPT !.tlb_sets[set_idx][i].timestamp = t,
                              !.tlb_hits = @ + 1],
             ret |-> TRUE]
       ELSE [st |-> s, ret |-> FALSE]

\* lookup(vpn, out_entry) at time t; `out` is *out_entry after a hit
tlb_lookup(s, vpn, t) ==
    LET set_idx == get_set_index(vpn)
        i == TlbFindValid(s.tlb_sets[set_idx], vpn)
    IN IF i # 0
       THEN [st |-> [s EXCEPT !.tlb_sets[set_idx][i].timestamp = t,
                              !.tlb_hits = @ + 1],
             ret |-> TRUE,
             out |-> [s.tlb_sets[set_idx][i] EXCEPT !.timestamp = t]]
       ELSE [st |-> [s EXCEPT !.tlb_misses = @ + 1], ret |-> FALSE]

\* index of the first entry of a set with the smallest timestamp
TlbLruIndex(set) ==
    CHOOSE i \in 1..Len(set) :
        /\ \A j \in 1..Len(set) : set[i].timestamp <= set[j].timestamp
        /\ \A j \in 1..(i - 1) : set[j].timestamp > set[i].timestamp

\* an eviction that takes the entry at the front of the set
tlb_evict_front(s, set_idx) ==
    IF Len(s.tlb_sets[set_idx]) = 0 THEN s
    ELSE [s EXCEPT !.tlb_sets[set_idx] = Tail(@)]

tlb_evict_lru(s, set_idx) ==
    IF Len(s.tlb_sets[set_idx]) = 0 THEN s
    ELSE [s EXCEPT !.tlb_sets[set_idx] = SeqErase(@, TlbLruIndex(@))]

\* insert(vpn, entry) at time t
tlb_insert(s, vpn, entry, t) ==
    LET set_idx == get_set_index(vpn)
        set == s.tlb_sets[set_idx]
        i == TlbFind(set, vpn)
    IN IF i # 0
       THEN [s EXCEPT !.tlb_sets[set_idx][i] = [entry EXCEPT !.timestamp = t]]
       ELSE LET new_entry == [entry EXCEPT !.timestamp = t, !.valid = TRUE]
                r == IF Len(set) < TlbAssoc THEN s ELSE tlb_evict_lru(s, set_idx)
            IN [r EXCEPT !.tlb_sets[set_idx] = Append(@, new_entry)]

tlb_flush(s) == [s EXCEPT !.tlb_sets = [i \in DOMAIN @ |-> <<>>]]

tlb_reset_stats(s) == [s EXCEPT !.tlb_hits = 0, !.tlb_misses = 0]

tlb_get_hits(s) == s.tlb_hits

tlb_get_misses(s) == s.tlb_misses

\* ------------------------------------------------------------- Policies

lru_on_page_access(s, vpn) == s

RECURSIVE lru_trim(_)
lru_trim(s) ==
    IF Len(s.lru_queue) > PolicyMaxPages
    THEN lru_trim([s EXCEPT !.lru_queue = Tail(@),
                            !.active_pages = @ \ {Head(s.lru_queue)}])
    ELSE s

lru_on_page_allocated(s, vpn) ==
    lru_trim([s EXCEPT !.lru_queue = Append(@, vpn),
                       !.active_pages = @ \cup {vpn}])

lru_on_page_freed(s, vpn) == [s EXCEPT !.active_pages = @ \ {vpn}]

\* select_victim that takes the newest candidate
lru_select_newest(s) ==
    IF Len(s.lru_queue) = 0 THEN [st |-> s, ret |-> 0]
    ELSE LET n == Len(s.lru_queue) IN
         [st |-> [s EXCEPT !.lru_queue = SubSeq(@, 1, n - 1),
                           !.active_pages = @ \ {s.lru_queue[n]}],
          ret |-> s.lru_queue[n]]

lru_select_victim(s) ==
    IF Len(s.lru_queue) = 0 THEN [st |-> s, ret |-> 0]
    ELSE [st |-> [s EXCEPT !.lru_queue = Tail(@),
                           !.active_pages = @ \ {Head(s.lru_queue)}],
          ret |-> Head(s.lru_queue)]

\* index (1-based) of the first clock entry with this VPN, or 0
ClockFind(vec, vpn) ==
    IF \E i \in 1..Len(vec) : vec[i].vpn = vpn
    THEN CHOOSE i \in 1..Len(vec) :
             vec[i].vpn = vpn /\ \A j \in 1..(i - 1) : vec[j].vpn # vpn
    ELSE 0

clock_on_page_access(s, vpn) ==
    LET i == ClockFind(s.clock_vec, vpn) IN
    IF i = 0 THEN s ELSE [s EXCEPT !.clock_vec[i].reference_bit = TRUE]

RECURSIVE clock_trim(_)
clock_trim(s) ==
    IF Len(s.clock_vec) > PolicyMaxPages
    THEN LET h == IF s.hand_pos >= Len(s.clock_vec) THEN 0 ELSE s.hand_pos
             v == SeqErase(s.clock_vec, h + 1)
         IN clock_trim([s EXCEPT !.clock_vec = v,
                                 !.hand_pos = IF h >= Len(v) /\ Len(v) > 0
                                              THEN 0 ELSE h])
    ELSE s

clock_on_page_allocated(s, vpn) ==
    clock_trim([s EXCEPT !.clock_vec =
                   Append(@, [vpn |-> vpn, reference_bit |-> TRUE])])

clock_on_page_freed(s, vpn) ==
    LET i == ClockFind(s.clock_vec, vpn) IN
    IF i = 0 THEN s
    ELSE LET v == SeqErase(s.clock_vec, i) IN
         [s EXCEPT !.clock_vec = v,
                   !.hand_pos = IF @ >= Len(v) /\ Len(v) > 0 THEN 0 ELSE @]

\* the victim is read at the hand, the hand advances, and the element at the
\* advanced hand is the one erased
clock_take(s) ==
    LET n == Len(s.clock_vec)
        h == (s.hand_pos + 1) % n
    IN [st |-> [s EXCEPT !.hand_pos = h, !.clock_vec = SeqErase(@, h + 1)],
        ret |-> IF s.hand_pos < n THEN s.clock_vec[s.hand_pos + 1].vpn ELSE 0]

\* the sweep of select_victim; `fuel` bounds the unrolling: each pass clears
\* one reference bit, so Len + 1 passes reach a cleared bit
RECURSIVE clock_sweep(_, _, _)
clock_sweep(s, junk, fuel) ==
    IF s.hand_pos < Len(s.clock_vec) /\ fuel > 0
    THEN IF ~s.clock_vec[s.hand_pos + 1].reference_bit
         THEN clock_take(s)
         ELSE clock_sweep(
                  [s EXCEPT !.clock_vec[s.hand_pos + 1].reference_bit = FALSE,
                            !.hand_pos = (@ + 1) % Len(s.clock_vec)],
                  junk, fuel - 1)
    ELSE \* hand_pos_ >= size: clock_hand_vec_[hand_pos_] is read past the end
         \* and yields `junk`; the hand is then reduced modulo the size and
         \* the element it lands on is erased
         [st |-> clock_take(s).st, ret |-> junk]

clock_select_victim(s, junk) ==
    IF Len(s.clock_vec) = 0 THEN [st |-> s, ret |-> 0]
    ELSE clock_sweep(s, junk, Len(s.clock_vec) + 1)

IsLRU(s) == s.policy_kind = "LRU"

on_page_access(s, vpn) ==
    IF IsLRU(s) THEN lru_on_page_access(s, vpn) ELSE clock_on_page_access(s, vpn)

on_page_allocated(s, vpn) ==
    IF IsLRU(s) THEN lru_on_page_allocated(s, vpn)
    ELSE clock_on_page_allocated(s, vpn)

on_page_freed(s, vpn) ==
    IF IsLRU(s) THEN lru_on_page_freed(s, vpn) ELSE clock_on_page_freed(s, vpn)

select_victim(s, junk) ==
    IF IsLRU(s) THEN lru_select_victim(s) ELSE clock_select_victim(s, junk)

\* ----------------------------------------------------- MigrationManager

\* migrate_cpu_to_gpu without its write of is_dirty
migrate_cpu_to_gpu_dirty_kept(s, vpn, cpu_addr, gpu_addr, t) ==
    IF cpu_addr = NullPtr THEN [st |-> s, ret |-> 0]
    ELSE IF ~has_entry(s, vpn) THEN [st |-> s, ret |-> 0]
    ELSE [st |-> [s EXCEPT !.entries[vpn].resident_on_gpu = TRUE,
                           !.entries[vpn].gpu_address = gpu_addr],
          ret |-> t]

\* t is the elapsed time the call measures
migrate_cpu_to_gpu(s, vpn, cpu_addr, gpu_addr, t) ==
    IF cpu_addr = NullPtr THEN [st |-> s, ret |-> 0]
    ELSE IF ~has_entry(s, vpn) THEN [st |-> s, ret |-> 0]
    ELSE [st |-> [s EXCEPT !.entries[vpn].resident_on_gpu = TRUE,
                           !.entries[vpn].gpu_address = gpu_addr,
                           !.entries[vpn].is_dirty = FALSE],
          ret |-> t]

migrate_gpu_to_cpu(s, vpn, gpu_addr, cpu_addr, t) ==
    IF cpu_addr = NullPtr \/ gpu_addr = 0 THEN [st |-> s, ret |-> 0]
    ELSE [st |-> IF has_entry(s, vpn)
                 THEN [s EXCEPT !.entries[vpn].resident_on_cpu = TRUE,
                                !.entries[vpn].cpu_address = cpu_addr]
                 ELSE s,
          ret |-> t]

\* -------------------------------------------------- VirtualMemoryManager

\* What a call takes from its environment: t, the elapsed time a migration
\* measures; pick, the element *gpu_resident_pages_.begin() yields (the
\* iteration order of an unordered_set is unspecified); junk, the value an
\* out-of-bounds read of the clock vector yields.

EmptyMap == [x \in {} |-> 0]

FreshBitmap(n) == [i \in 0..(n - 1) |-> FALSE]

\* the subsystems as their constructors and initialize() leave them
FreshSubsystems(s) ==
    [s EXCEPT !.entries = EmptyMap,
              !.cpu_bitmap = FreshBitmap(CpuPoolPages),
              !.gpu_bitmap = FreshBitmap(GpuPoolPages),
              !.cpu_allocated = 0,
              !.gpu_allocated = 0,
              !.host_mem = [b \in 0..(CpuPoolBytes - 1) |-> Uninit],
              !.tlb_sets = [i \in 0..(TlbNumSets - 1) |-> <<>>],
              !.tlb_hits = 0,
              !.tlb_misses = 0,
              !.lru_queue = <<>>,
              !.active_pages = {},
              !.clock_vec = <<>>,
              !.hand_pos = 0]

initialize(s, replacement_policy) ==
    IF s.initialized THEN s
    ELSE [FreshSubsystems(s) EXCEPT !.policy_kind = replacement_policy,
                                    !.next_vpn = 0,
                                    !.initialized = TRUE]

\* the unique_ptrs are reset: the destroyed subsystems are shown as fresh ones
shutdown(s) ==
    IF ~s.initialized THEN s
    ELSE [FreshSubsystems(s) EXCEPT !.vaddr_map = EmptyMap,
                                    !.gpu_resident = {},
                                    !.initialized = FALSE]

\* a migration counted without its bytes
count_migration_no_bytes(s, field, mig_time) ==
    [s EXCEPT !.perf[field] = @ + 1,
              !.perf.total_migration_time_us = @ + mig_time]

\* the three counter updates that follow every synchronous migration
count_migration(s, field, mig_time) ==
    [s EXCEPT !.perf[field] = @ + 1,
              !.perf.total_bytes_migrated = @ + PageSize,
              !.perf.total_migration_time_us = @ + mig_time]

\* *gpu_resident_pages_.begin()
ledger_begin(s, env) ==
    IF env.pick \in s.gpu_resident THEN env.pick
    ELSE CHOOSE v \in s.gpu_resident : TRUE

evict_page_from_gpu(s, env) ==
    IF s.gpu_resident = {} THEN s
    ELSE
    LET sel == select_victim(s, env.junk)
        s1 == sel.st
        victim == IF sel.ret = 0 /\ Cardinality(s1.gpu_resident) > 0
                  THEN ledger_begin(s1, env) ELSE sel.ret
    IN
    IF victim = 0 THEN s1
    ELSE IF ~has_entry(s1, victim) THEN s1
    ELSE
    LET e == s1.entries[victim]
        s2 == IF e.is_dirty /\ e.resident_on_cpu
              THEN LET m == migrate_gpu_to_cpu(s1, victim, e.gpu_address,
                                               e.cpu_address, env.t)
                   IN count_migration(m.st, "gpu_to_cpu_migrations", m.ret)
              ELSE s1
        s3 == deallocate_gpu_page(s2, s2.entries[victim].gpu_address)
        s4 == [s3 EXCEPT !.entries[victim].gpu_address = 0,
                         !.entries[victim].resident_on_gpu = FALSE,
                         !.gpu_resident = @ \ {victim},
                         !.perf.evictions = @ + 1]
    IN tlb_invalidate(s4, victim)

\* the body shared by map_to_gpu and resolve_page_fault's device branch, for
\* an entry that exists and is not resident on the device
fault_to_gpu(s, vpn, env) ==
    Then(IF s.entries[vpn].gpu_address = 0
         THEN Then(allocate_gpu_page(s), LAMBDA a :
              IF a.ret # 0
              THEN [a.st EXCEPT !.entries[vpn].gpu_address = a.ret]
              ELSE Then(evict_page_from_gpu(
                            [a.st EXCEPT !.entries[vpn].gpu_address = 0], env),
                        LAMBDA ev :
                   Then(allocate_gpu_page(ev), LAMBDA b :
                        [b.st EXCEPT !.entries[vpn].gpu_address = b.ret])))
         ELSE s, LAMBDA s1 :
    Then(IF s1.entries[vpn].resident_on_cpu
         THEN Then(migrate_cpu_to_gpu(s1, vpn, s1.entries[vpn].cpu_address,
                                      s1.entries[vpn].gpu_address, env.t),
                   LAMBDA m : count_migration(m.st, "cpu_to_gpu_migrations",
                                              m.ret))
         ELSE s1, LAMBDA s2 :
    [s2 EXCEPT !.entries[vpn].resident_on_gpu = TRUE,
               !.gpu_resident = @ \cup {vpn}]))

\* resolve_page_fault's host branch, for an entry that exists and is not
\* resident on the host
fault_to_cpu(s, vpn, env) ==
    LET s1 == IF s.entries[vpn].cpu_address = NullPtr
              THEN LET a == allocate_cpu_page(s) IN
                   [a.st EXCEPT !.entries[vpn].cpu_address = a.ret]
              ELSE s
        s2 == IF s1.entries[vpn].resident_on_gpu
              THEN LET m == migrate_gpu_to_cpu(s1, vpn,
                                               s1.entries[vpn].gpu_address,
                                               s1.entries[vpn].cpu_address,
                                               env.t)
                   IN count_migration(m.st, "gpu_to_cpu_migrations", m.ret)
              ELSE s1
    IN [s2 EXCEPT !.entries[vpn].resident_on_cpu = TRUE]

resolve_page_fault(s, vpn, access_gpu, env) ==
    IF ~has_entry(s, vpn) THEN s
    ELSE IF access_gpu
         THEN IF ~s.entries[vpn].resident_on_gpu
              THEN fault_to_gpu(s, vpn, env) ELSE s
         ELSE IF ~s.entries[vpn].resident_on_cpu
              THEN fault_to_cpu(s, vpn, env) ELSE s

\* allocate's first loop, from page i; cpu_pages holds the slots taken so far
RECURSIVE alloc_host_loop(_, _, _, _, _)
alloc_host_loop(s, vpn_start, num_pages, i, cpu_pages) ==
    IF i >= num_pages THEN [st |-> s, ok |-> TRUE, cpu_pages |-> cpu_pages]
    ELSE
    LET a == allocate_cpu_page(s) IN
    IF a.ret = NullPtr
    THEN LET RECURSIVE release(_, _)
             release(x, k) ==
                 IF k > Len(cpu_pages) THEN x
                 ELSE release(deallocate_cpu_page(x, cpu_pages[k]), k + 1)
         IN [st |-> deallocate_vpn_range(release(a.st, 1), vpn_start, num_pages),
             ok |-> FALSE, cpu_pages |-> cpu_pages]
    ELSE LET vpn == vpn_start + i IN
         alloc_host_loop(
             on_page_allocated(set_cpu_resident(a.st, vpn, a.ret), vpn),
             vpn_start, num_pages, i + 1, Append(cpu_pages, a.ret))

\* allocate's prefetch loop, from page i
RECURSIVE alloc_prefetch_loop(_, _, _, _, _, _)
alloc_prefetch_loop(s, vpn_start, num_pages, i, cpu_pages, env) ==
    IF i >= num_pages THEN s
    ELSE
    LET a == allocate_gpu_page(s) IN
    IF a.ret = 0
    THEN alloc_prefetch_loop(a.st, vpn_start, num_pages, i + 1, cpu_pages, env)
    ELSE LET vpn == vpn_start + i
             s1 == set_gpu_resident(a.st, vpn, a.ret)
             s2 == [s1 EXCEPT !.gpu_resident = @ \cup {vpn}]
             m == migrate_cpu_to_gpu(s2, vpn, cpu_pages[i + 1], a.ret, env.t)
             s3 == count_migration(m.st, "cpu_to_gpu_migrations", m.ret)
             s4 == [s3 EXCEPT !.perf.page_prefetches = @ + 1]
         IN alloc_prefetch_loop(s4, vpn_start, num_pages, i + 1, cpu_pages, env)

allocate(s, bytes, prefetch_to_gpu, env) ==
    IF ~s.initialized THEN [st |-> s, ret |-> NullPtr]
    ELSE
    LET aligned_size == align_to_page(bytes)
        num_pages == aligned_size \div PageSize
        vpn_start == s.next_vpn
        r == allocate_vpn_range(s, vpn_start, num_pages)
    IN
    IF ~r.ret THEN [st |-> r.st, ret |-> NullPtr]
    ELSE
    LET h == alloc_host_loop(r.st, vpn_start, num_pages, 0, <<>>) IN
    IF ~h.ok THEN [st |-> h.st, ret |-> NullPtr]
    ELSE
    LET s1 == IF prefetch_to_gpu
              THEN alloc_prefetch_loop(h.st, vpn_start, num_pages, 0,
                                       h.cpu_pages, env)
              ELSE h.st
        vaddr == vpn_to_vaddr(vpn_start)
    IN [st |-> [s1 EXCEPT !.vaddr_map = MapPut(@, vaddr, vpn_start),
                          !.next_vpn = @ + num_pages],
        ret |-> vaddr]

\* the number of pages free() releases: every valid entry at or above
\* vpn_start is counted
free_num_pages(s, vpn_start) ==
    LET n == Cardinality({v \in get_all_entries(s) : v >= vpn_start})
    IN IF n = 0 THEN 1 ELSE n

\* free's loop without its ledger update
ledger_erase_skipped(s, vpn) == s

\* gpu_resident_pages_.erase(vpn)
ledger_erase(s, vpn) == [s EXCEPT !.gpu_resident = @ \ {vpn}]

\* free's loop, from page i
RECURSIVE free_loop(_, _, _, _)
free_loop(s, vpn_start, num_pages, i) ==
    IF i >= num_pages THEN s
    ELSE
    LET vpn == vpn_start + i
        s1 == IF has_entry(s, vpn) /\ s.entries[vpn].cpu_address # NullPtr
              THEN deallocate_cpu_page(s, s.entries[vpn].cpu_address) ELSE s
        s2 == IF has_entry(s1, vpn) /\ s1.entries[vpn].gpu_address # 0
              THEN deallocate_gpu_page(s1, s1.entries[vpn].gpu_address) ELSE s1
        s3 == ledger_erase(s2, vpn)
        s4 == tlb_invalidate(on_page_freed(s3, vpn), vpn)
    IN free_loop(s4, vpn_start, num_pages, i + 1)

free(s, vaddr) ==
    IF ~s.initialized THEN s
    ELSE IF vaddr \notin DOMAIN s.vaddr_map THEN s
    ELSE
    LET vpn_start == s.vaddr_map[vaddr]
        num_pages == free_num_pages(s, vpn_start)
        s1 == free_loop(s, vpn_start, num_pages, 0)
        s2 == deallocate_vpn_range(s1, vpn_start, num_pages)
    IN [s2 EXCEPT !.vaddr_map = MapErase(@, vaddr)]

map_to_cpu(s, vaddr, env) ==
    IF ~s.initialized THEN s
    ELSE LET vpn == vaddr_to_vpn(vaddr) IN
         IF ~has_entry(s, vpn) THEN s
         ELSE IF ~s.entries[vpn].resident_on_cpu
              THEN resolve_page_fault(s, vpn, FALSE, env) ELSE s

\* map_to_gpu without its test of resident_on_gpu
map_to_gpu_unguarded(s, vaddr, env) ==
    IF ~s.initialized THEN s
    ELSE LET vpn == vaddr_to_vpn(vaddr) IN
         IF ~has_entry(s, vpn) THEN s ELSE fault_to_gpu(s, vpn, env)

map_to_gpu(s, vaddr, env) ==
    IF ~s.initialized THEN s
    ELSE LET vpn == vaddr_to_vpn(vaddr) IN
         IF ~has_entry(s, vpn) THEN s
         ELSE IF ~s.entries[vpn].resident_on_gpu
              THEN fault_to_gpu(s, vpn, env) ELSE s

prefetch_to_gpu(s, vaddr, env) == map_to_gpu(s, vaddr, env)

\* touch_page without its update of is_dirty
touch_page_no_dirty(s, vaddr, is_write, env) ==
    IF ~s.initialized THEN s
    ELSE
    LET vpn == vaddr_to_vpn(vaddr)
        s1 == IF ~has_entry(s, vpn)
              THEN resolve_page_fault(
                       [s EXCEPT !.perf.total_page_faults = @ + 1],
                       vpn, FALSE, env)
              ELSE s
    IN IF has_entry(s1, vpn) THEN on_page_access(s1, vpn) ELSE s1

touch_page(s, vaddr, is_write, env) ==
    IF ~s.initialized THEN s
    ELSE
    LET vpn == vaddr_to_vpn(vaddr)
        s1 == IF ~has_entry(s, vpn)
              THEN resolve_page_fault(
                       [s EXCEPT !.perf.total_page_faults = @ + 1],
                       vpn, FALSE, env)
              ELSE s
    IN IF has_entry(s1, vpn)
       THEN on_page_access(
                IF is_write THEN [s1 EXCEPT !.entries[vpn].is_dirty = TRUE]
                ELSE s1,
                vpn)
       ELSE s1

\* the host byte at a pointer; a byte outside the pool is indeterminate
mem_read(s, ptr) ==
    IF ptr - CpuPoolBase \in DOMAIN s.host_mem
    THEN s.host_mem[ptr - CpuPoolBase] ELSE Uninit

\* memcpy(buffer, cpu_address, bytes): out is the caller's buffer before the
\* call, of at least `bytes` bytes; ret is the buffer after it
read_from_vaddr(s, vaddr, out, bytes, env) ==
    IF ~s.initialized \/ vaddr = NullPtr THEN [st |-> s, ret |-> out]
    ELSE
    LET vpn == vaddr_to_vpn(vaddr) IN
    IF ~has_entry(s, vpn) THEN [st |-> s, ret |-> out]
    ELSE
    LET s1 == IF ~s.entries[vpn].resident_on_cpu
              THEN resolve_page_fault(s, vpn, FALSE, env) ELSE s
    IN IF has_entry(s1, vpn) /\ s1.entries[vpn].cpu_address # NullPtr
       THEN [st |-> s1,
             ret |-> [k \in 1..Len(out) |->
                        IF k <= bytes
                        THEN mem_read(s1, s1.entries[vpn].cpu_address + k - 1)
                        ELSE out[k]]]
       ELSE [st |-> s1, ret |-> out]

\* memcpy(cpu_address, buffer, bytes): the copy starts at the slot's first
\* byte whatever the offset of vaddr in its page
write_to_vaddr(s, vaddr, buffer, bytes, env) ==
    IF ~s.initialized \/ vaddr = NullPtr THEN s
    ELSE
    LET vpn == vaddr_to_vpn(vaddr) IN
    IF ~has_entry(s, vpn) THEN s
    ELSE
    LET s1 == IF ~s.entries[vpn].resident_on_cpu
              THEN resolve_page_fault(s, vpn, FALSE, env) ELSE s
    IN IF has_entry(s1, vpn) /\ s1.entries[vpn].cpu_address # NullPtr
       THEN LET base == s1.entries[vpn].cpu_address - CpuPoolBase IN
            [s1 EXCEPT !.host_mem =
                           [b \in DOMAIN @ |->
                              IF b >= base /\ b < base + bytes
                              THEN buffer[b - base + 1] ELSE @[b]],
                       !.entries[vpn].is_dirty = TRUE]
       ELSE s1

\* wait_for_migrations: the facade enqueues no asynchronous job
sync_all_migrations(s) == s

reset_counters(s) == [s EXCEPT !.perf = PerfZero]

get_gpu_pages_used(s) == Cardinality(s.gpu_resident)

\* PageTable::num_pages_: initialize() sets it to virtual_space_size /
\* page_size_ and nothing else writes it
get_num_allocated_pages(s) == VirtualSpacePages

\* page_table_ is null before initialize() and after shutdown()
get_cpu_pages_used(s) ==
    IF ~s.initialized THEN 0 ELSE get_num_allocated_pages(s)

\* ------------------------------------------------------- specification

Policies == {"LRU", "CLOCK"}

\* byte sizes handed to allocate: zero, less than a page, a page, more
AllocSizes == {0, 1, PageSize, PageSize + 1}

\* every address of the model: null, page bases, addresses inside a page, and
\* addresses past every page issued
AllAddrs == 0..(MaxVpn * PageSize + 1)

\* the addresses the actions hand to the facade: the base of every page, and
\* a non-null address inside page 0
Addrs == {vpn_to_vaddr(v) : v \in 0..MaxVpn} \cup {1}

\* the buffers the write action hands over: n bytes of one value
FillBuffers(n) == {[k \in 1..n |-> d] : d \in WriteData}

Buffers(n) == [1..n -> Data]

\* what an operation draws from outside the state: the time a copy takes,
\* the ledger's first element (an unordered set's, read when the device pool
\* is full), and the value of an out-of-range read of the CLOCK vector
Envs(s) ==
    [t : MigTimes,
     pick : IF s.gpu_resident = {} \/ get_available_gpu_pages(s) > 0
            THEN {0} ELSE s.gpu_resident,
     junk : IF ~IsLRU(s) /\ s.clock_vec # <<>> /\ s.hand_pos >= Len(s.clock_vec)
            THEN 0..MaxVpn ELSE {0}]

\* the model's bounds on what is unbounded in the program
Bounded(s) ==
    /\ s.next_vpn <= MaxVpn
    /\ Len(s.lru_queue) <= MaxVpn
    /\ Len(s.clock_vec) <= MaxVpn
    /\ \A c \in {"total_page_faults", "cpu_to_gpu_migrations",
                 "gpu_to_cpu_migrations", "evictions", "page_prefetches"} :
           s.perf[c] <= MaxCount

Step(s) == \E r \in {s} : Bounded(r) /\ Commit(r)

\* the step of an operation that makes nothing grow
Return(s) == \E r \in {s} : Commit(r)

\* a copy of `bytes` bytes from or to the slot of vaddr's page stays in the pool
InPool(s, vaddr, bytes) ==
    LET vpn == vaddr_to_vpn(vaddr) IN
    has_entry(s, vpn) /\ s.entries[vpn].cpu_address # NullPtr
        => s.entries[vpn].cpu_address - CpuPoolBase + bytes <= CpuPoolBytes

\* the process before the first initialize(): the singleton has static storage
ProcessStart ==
    [FreshSubsystems(
         [initialized |-> FALSE, policy_kind |-> "LRU", entries |-> EmptyMap,
          cpu_bitmap |-> EmptyMap, gpu_bitmap |-> EmptyMap,
          cpu_allocated |-> 0, gpu_allocated |-> 0, host_mem |-> EmptyMap,
          tlb_sets |-> EmptyMap, tlb_hits |-> 0, tlb_misses |-> 0,
          lru_queue |-> <<>>, active_pages |-> {}, clock_vec |-> <<>>,
          hand_pos |-> 0, next_vpn |-> 0, vaddr_map |-> EmptyMap,
          gpu_resident |-> {}, perf |-> PerfZero])
     EXCEPT !.initialized = FALSE]

Init ==
    /\ initialized = ProcessStart.initialized
    /\ policy_kind = ProcessStart.policy_kind
    /\ entries = ProcessStart.entries
    /\ cpu_bitmap = ProcessStart.cpu_bitmap
    /\ gpu_bitmap = ProcessStart.gpu_bitmap
    /\ cpu_allocated = ProcessStart.cpu_allocated
    /\ gpu_allocated = ProcessStart.gpu_allocated
    /\ host_mem = ProcessStart.host_mem
    /\ tlb_sets = ProcessStart.tlb_sets
    /\ tlb_hits = ProcessStart.tlb_hits
    /\ tlb_misses = ProcessStart.tlb_misses
    /\ lru_queue = ProcessStart.lru_queue
    /\ active_pages = ProcessStart.active_pages
    /\ clock_vec = ProcessStart.clock_vec
    /\ hand_pos = ProcessStart.hand_pos
    /\ next_vpn = ProcessStart.next_vpn
    /\ vaddr_map = ProcessStart.vaddr_map
    /\ gpu_resident = ProcessStart.gpu_resident
    /\ perf = ProcessStart.perf
    /\ shutdown_flag = FALSE
    /\ migration_queue = <<>>
    /\ queue_mutex = 0
    /\ worker_pc = [w \in Workers |-> "none"]
    /\ worker_job = [w \in Workers |-> NoJob]
    /\ owner_pc = "none"
    /\ manager_mutex = [writer |-> 0, readers |-> {}]
    /\ caller_pc = [c \in Callers |-> "idle"]

Initialize == \E p \in Policies : ~initialized /\ Return(initialize(State, p))

Shutdown == initialized /\ Return(shutdown(State))

Allocate ==
    \E bytes \in AllocSizes, pf \in BOOLEAN, env \in Envs(State) :
        Step(allocate(State, bytes, pf, env).st)

Free == \E vaddr \in Addrs : Step(free(State, vaddr))

MapToCpu == \E vaddr \in Addrs, env \in Envs(State) :
                Step(map_to_cpu(State, vaddr, env))

MapToGpu == \E vaddr \in Addrs, env \in Envs(State) :
                Step(map_to_gpu(State, vaddr, env))

PrefetchToGpu == \E vaddr \in Addrs, env \in Envs(State) :
                     Step(prefetch_to_gpu(State, vaddr, env))

TouchPage == \E vaddr \in Addrs, w \in BOOLEAN, env \in Envs(State) :
                 Step(touch_page(State, vaddr, w, env))

ReadFromVaddr ==
    \E vaddr \in Addrs, n \in 1..MaxIoBytes, env \in Envs(State) :
        /\ InPool(State, vaddr, n)
        /\ \E out \in FillBuffers(n) :
               Step(read_from_vaddr(State, vaddr, out, n, env).st)

WriteToVaddr ==
    \E vaddr \in Addrs, n \in 1..MaxIoBytes, env \in Envs(State) :
        /\ InPool(State, vaddr, n)
        /\ \E buf \in FillBuffers(n) :
               Step(write_to_vaddr(State, vaddr, buf, n, env))

SyncAllMigrations == initialized /\ Return(sync_all_migrations(State))

ResetCounters == Return(reset_counters(State))

Next ==
    \/ Initialize
    \/ Shutdown
    \/ Allocate
    \/ Free
    \/ MapToCpu
    \/ MapToGpu
    \/ PrefetchToGpu
    \/ TouchPage
    \/ ReadFromVaddr
    \/ WriteToVaddr
    \/ SyncAllMigrations
    \/ ResetCounters

Spec == Init /\ [][Next]_vars

\* ------------------------------------ the facade over a larger host pool
\*
\* initialize() sizes the host pool and the device pool from the same
\* gpu_memory, so under Spec every page that holds a host slot can hold a
\* device slot too: the device pool is never full while a page is resident on
\* the host alone, and evict_page_from_gpu() is never entered with a full
\* pool.  PageAllocator itself takes the two sizes separately
\* (AllocatorConfig).  SpecLargerHostPool runs the same facade code over a
\* PageAllocator whose host pool has one slot more than the device pool; it
\* is the specification for what the eviction path of the code does once it
\* is entered.

initialize_host_pool(s, replacement_policy, cpu_pages) ==
    IF s.initialized THEN s
    ELSE [initialize(s, replacement_policy) EXCEPT
              !.cpu_bitmap = FreshBitmap(cpu_pages),
              !.host_mem = [b \in 0..(cpu_pages * PageSize - 1) |-> Uninit]]

InitializeLargerHostPool ==
    \E p \in Policies :
        ~initialized /\ Return(initialize_host_pool(State, p, CpuPoolPagesLarger))

NextLargerHostPool ==
    \/ InitializeLargerHostPool
    \/ Allocate
    \/ Free
    \/ MapToGpu
    \/ TouchPage
    \/ ResetCounters

SpecLargerHostPool == Init /\ [][NextLargerHostPool]_vars

\* ------------------------------------------- a replacement policy alone
\*
\* The policy object driven directly, as the unit tests drive it: the
\* fixture constructs an LRUPolicy or a CLOCKPolicy, and the test calls its
\* four methods with VPNs of its choice.  The facade's variables stay as
\* they are at the start of the process.

\* LRUPolicy(max_pages) / CLOCKPolicy(max_pages), and reset()
policy_construct(s, kind) ==
    [s EXCEPT !.policy_kind = kind,
              !.lru_queue = <<>>,
              !.active_pages = {},
              !.clock_vec = <<>>,
              !.hand_pos = 0]

Vpns == 0..MaxVpn

\* the values an out-of-range read of the clock vector can yield in state s
Junks(s) == {e.junk : e \in Envs(s)}

PolicyConstruct == \E kind \in Policies : Return(policy_construct(State, kind))

OnPageAllocated == \E vpn \in Vpns : Step(on_page_allocated(State, vpn))

OnPageAccess == \E vpn \in Vpns : Step(on_page_access(State, vpn))

OnPageFreed == \E vpn \in Vpns : Step(on_page_freed(State, vpn))

SelectVictim == \E junk \in Junks(State) : Step(select_victim(State, junk).st)

NextPolicy ==
    \/ PolicyConstruct
    \/ OnPageAllocated
    \/ OnPageAccess
    \/ OnPageFreed
    \/ SelectVictim

SpecPolicy == Init /\ [][NextPolicy]_vars

\* ------------------------------------------------------------- properties

\* the number of pages allocate() gives to a request of `bytes` bytes
alloc_num_pages(bytes) == align_to_page(bytes) \div PageSize

\* allocate(bytes) in state s reaches its successful return
AllocSucceeds(s, bytes) ==
    /\ s.initialized
    /\ LET n == alloc_num_pages(bytes)
           r == allocate_vpn_range(s, s.next_vpn, n)
       IN r.ret /\ alloc_host_loop(r.st, s.next_vpn, n, 0, <<>>).ok

\* the VPNs a successful allocate(bytes) in state s gives to the caller
AllocRange(s, bytes) == s.next_vpn..(s.next_vpn + alloc_num_pages(bytes) - 1)

\* the host and device slots of page vpn are marked free in the bitmaps of r,
\* where q is the state in which the page owned them
SlotsReleased(q, r, vpn) ==
    LET e == q.entries[vpn] IN
    /\ e.cpu_address # NullPtr
           => ~r.cpu_bitmap[(e.cpu_address - CpuPoolBase) \div PageSize]
    /\ e.gpu_address # 0
           => ~r.gpu_bitmap[(e.gpu_address - GpuBase) \div PageSize]

\* page vpn of state q is in state r what it was in q: entry, slots, ledger
PageKept(q, r, vpn) ==
    /\ has_entry(r, vpn)
    /\ r.entries[vpn] = q.entries[vpn]
    /\ ~SlotsReleased(q, r, vpn)
    /\ (vpn \in r.gpu_resident) <=> (vpn \in q.gpu_resident)

\* the one draw the operations below are given where nothing is drawn
Env0 == [t |-> 1, pick |-> 0, junk |-> 0]

\* C1: free on the base address of a live allocation leaves every other live
\* allocation as it was: in any reachable state, allocate A (at least one
\* page), allocate B, then free(A); afterwards B's page-table entries, host and
\* device slots, ledger membership and base->VPN entry are those B had before
\* the call.
C1_FreeKeepsOtherAllocations ==
    \A a_bytes \in AllocSizes \ {0}, b_bytes \in AllocSizes, pf \in BOOLEAN :
        LET A == allocate(State, a_bytes, FALSE, Env0)
            B == allocate(A.st, b_bytes, pf, Env0)
            F == free(B.st, A.ret)
        IN AllocSucceeds(State, a_bytes) /\ AllocSucceeds(A.st, b_bytes)
           => /\ \A v \in AllocRange(A.st, b_bytes) : PageKept(B.st, F, v)
              /\ B.ret \in DOMAIN F.vaddr_map
              /\ F.vaddr_map[B.ret] = B.st.vaddr_map[B.ret]

\* C2: after free(vaddr) of a live allocation no VPN of the freed range has a
\* page-table entry, a TLB entry or a place in the ledger, and the slots it
\* owned are free: in any reachable state, allocate D, free any other base the
\* caller still holds, then free(D).
C2_FreedRangeIsReleased ==
    \A d_bytes \in AllocSizes, pf \in BOOLEAN, other \in DOMAIN vaddr_map :
        LET D == allocate(State, d_bytes, pf, Env0)
            O == free(D.st, other)
            F == free(O, D.ret)
        IN AllocSucceeds(State, d_bytes) /\ other # D.ret
           => \A v \in AllocRange(State, d_bytes) :
                  /\ ~has_entry(F, v)
                  /\ TlbFind(F.tlb_sets[get_set_index(v)], v) = 0
                  /\ v \notin F.gpu_resident
                  /\ SlotsReleased(D.st, F, v)

\* C3: in every reachable state every valid page-table entry is resident on
\* the host exactly when its host address is not null, and resident on the
\* device exactly when its device address is not 0.
C3_ResidencyMatchesAddresses ==
    \A v \in DOMAIN entries :
        entries[v].is_valid
            => /\ entries[v].resident_on_cpu <=> (entries[v].cpu_address # NullPtr)
               /\ entries[v].resident_on_gpu <=> (entries[v].gpu_address # 0)

\* every device slot is taken and a valid page is resident on both sides
C3_DevicePoolFull ==
    /\ initialized
    /\ get_available_gpu_pages(State) = 0
    /\ \E v \in DOMAIN entries :
           entries[v].resident_on_cpu /\ entries[v].resident_on_gpu

\* C4: in every reachable state the number of device-resident pages reported
\* (the size of the residency ledger) is at most the number of device slots.
C4_LedgerWithinDevicePool == get_gpu_pages_used(State) <= GpuPoolPages

\* the ledger holds as many pages as the device pool has slots, after a
\* migration to the device
C4_LedgerAtCapacity ==
    /\ get_gpu_pages_used(State) = GpuPoolPages
    /\ perf.cpu_to_gpu_migrations > 0

\* C5: in every reachable state bytes_migrated equals page_size times the sum
\* of the two migration counters.
C5_BytesMatchMigrations ==
    perf.total_bytes_migrated
        = PageSize * (perf.cpu_to_gpu_migrations + perf.gpu_to_cpu_migrations)

\* a migration has been counted since the last reset
C5_MigrationCounted ==
    perf.cpu_to_gpu_migrations + perf.gpu_to_cpu_migrations > 0
        /\ perf.total_bytes_migrated > 0

\* the caller's buffer before read_from_vaddr fills it
NoData(n) == [k \in 1..n |-> 0]

\* C6: for any buffer and any address returned by a successful allocate, the
\* first one after initialize included, write_to_vaddr(vaddr, buf, n) followed
\* at once by read_from_vaddr(vaddr, out, n) yields out = buf, for n up to the
\* size of the allocation.
C6_WriteThenReadReturnsBuffer ==
    \A bytes \in AllocSizes \ {0}, n \in 1..MaxIoBytes :
        \A buf \in Buffers(n) :
            LET A == allocate(State, bytes, FALSE, Env0)
                W == write_to_vaddr(A.st, A.ret, buf, n, Env0)
                R == read_from_vaddr(W, A.ret, NoData(n), n, Env0)
            IN AllocSucceeds(State, bytes) /\ n <= align_to_page(bytes)
               => R.ret = buf

\* C7: allocate returns null only when it failed: a call that reaches the
\* successful return gives a non-null address.
C7_SuccessfulAllocateReturnsNonNull ==
    \A bytes \in AllocSizes, pf \in BOOLEAN :
        AllocSucceeds(State, bytes)
            => allocate(State, bytes, pf, Env0).ret # NullPtr

\* C8: two successful allocate calls, of any size and with or without a
\* shutdown/initialize cycle between them, get disjoint VPN ranges, the later
\* range above the earlier one, and return distinct base addresses.
C8_VpnsNeverReused ==
    \A a_bytes \in AllocSizes, b_bytes \in AllocSizes, cycle \in BOOLEAN :
        LET A == allocate(State, a_bytes, FALSE, Env0)
            M == IF cycle THEN initialize(shutdown(A.st), policy_kind)
                 ELSE A.st
            B == allocate(M, b_bytes, FALSE, Env0)
        IN AllocSucceeds(State, a_bytes) /\ AllocSucceeds(M, b_bytes)
           => /\ A.ret # B.ret
              /\ \A v \in AllocRange(State, a_bytes),
                    w \in AllocRange(M, b_bytes) : v < w

\* C9: for every mapped page, touch_page with is_write = true leaves the
\* page's entry dirty and resident on the host.
C9_WriteTouchDirtiesPage ==
    \A vaddr \in AllAddrs, env \in Envs(State) :
        LET vpn == vaddr_to_vpn(vaddr)
            T == touch_page(State, vaddr, TRUE, env)
        IN has_entry(State, vpn)
           => /\ has_entry(T, vpn)
              /\ T.entries[vpn].is_dirty
              /\ T.entries[vpn].resident_on_cpu

\* a mapped page has been touched for writing
C9_PageDirty ==
    \E v \in DOMAIN entries :
        entries[v].is_dirty /\ entries[v].resident_on_cpu

\* C10: map_to_gpu twice on a mapped page that is resident on the host alone
\* counts exactly one host-to-device migration, and map_to_gpu on a page that
\* is resident on the device changes nothing, counters and residency included.
C10_MapToGpuIdempotent ==
    \A vaddr \in AllAddrs, env \in Envs(State) :
        LET vpn == vaddr_to_vpn(vaddr)
            M1 == map_to_gpu(State, vaddr, env)
            M2 == map_to_gpu(M1, vaddr, env)
        IN initialized /\ has_entry(State, vpn)
           => /\ entries[vpn].resident_on_gpu => M1 = State
              /\ entries[vpn].resident_on_cpu /\ ~entries[vpn].resident_on_gpu
                     => /\ M1.perf.cpu_to_gpu_migrations
                               = perf.cpu_to_gpu_migrations + 1
                        /\ M1.entries[vpn].resident_on_gpu
                        /\ M2 = M1

\* a page has been mapped to the device by map_to_gpu and is resident there
C10_MappedToDevice ==
    /\ perf.cpu_to_gpu_migrations = 1
    /\ perf.page_prefetches = 0
    /\ \E v \in DOMAIN entries :
           entries[v].resident_on_cpu /\ entries[v].resident_on_gpu

\* every slot of the device pool is taken by a page resident on the device
DevicePoolFull(s) ==
    /\ s.initialized
    /\ get_available_gpu_pages(s) = 0
    /\ \A i \in DOMAIN s.gpu_bitmap :
           \E v \in DOMAIN s.entries :
               /\ s.entries[v].resident_on_gpu
               /\ s.entries[v].gpu_address = GpuBase + i * PageSize

\* page vpn is mapped and resident on the host alone, without a device slot
HostOnly(s, vpn) ==
    /\ has_entry(s, vpn)
    /\ s.entries[vpn].resident_on_cpu
    /\ ~s.entries[vpn].resident_on_gpu
    /\ s.entries[vpn].gpu_address = 0

\* page vpn is resident on the device in a slot no other page holds
OwnDeviceSlot(s, vpn) ==
    /\ has_entry(s, vpn)
    /\ s.entries[vpn].resident_on_gpu
    /\ s.entries[vpn].gpu_address # 0
    /\ \A w \in DOMAIN s.entries :
           w # vpn /\ s.entries[w].resident_on_gpu
               => s.entries[w].gpu_address # s.entries[vpn].gpu_address

EvictionFreesNothing(s, env) ==
    get_available_gpu_pages(evict_page_from_gpu(s, env)) = 0

\* the three migration counters of r are those of s
MigrationCountersKept(s, r) ==
    /\ r.perf.cpu_to_gpu_migrations = s.perf.cpu_to_gpu_migrations
    /\ r.perf.total_bytes_migrated = s.perf.total_bytes_migrated
    /\ r.perf.total_migration_time_us = s.perf.total_migration_time_us

AllocFailsPartWay(s, bytes) ==
    /\ s.initialized
    /\ FirstFree(s.cpu_bitmap) >= 0
    /\ LET n == alloc_num_pages(bytes)
           r == allocate_vpn_range(s, s.next_vpn, n)
       IN r.ret /\ ~alloc_host_loop(r.st, s.next_vpn, n, 0, <<>>).ok

\* the VPNs the replacement policy of s holds as candidates
PolicyCandidates(s) ==
    IF IsLRU(s)
    THEN {s.lru_queue[i] : i \in DOMAIN s.lru_queue} \cup s.active_pages
    ELSE {s.clock_vec[i].vpn : i \in DOMAIN s.clock_vec}

\* C13: an allocate that fails because the host pool runs out part-way
\* returns null and leaves the system as it was: host slots released, no
\* page-table entry of the requested range, VPN counter and base->VPN map
\* unchanged, and no policy candidate for a VPN of the failed range.
C13_FailedAllocateLeavesNoTrace ==
    \A bytes \in AllocSizes, pf \in BOOLEAN, env \in Envs(State) :
        LET A == allocate(State, bytes, pf, env) IN
        AllocFailsPartWay(State, bytes)
            => /\ A.ret = NullPtr
               /\ A.st.cpu_bitmap = cpu_bitmap
               /\ A.st.cpu_allocated = cpu_allocated
               /\ \A v \in AllocRange(State, bytes) : ~has_entry(A.st, v)
               /\ A.st.next_vpn = next_vpn
               /\ A.st.vaddr_map = vaddr_map
               /\ PolicyCandidates(A.st) \cap AllocRange(State, bytes) = {}

\* vaddr is the null pointer, or an address that is no allocation's base and
\* whose page has no page-table entry
NoLiveMapping(s, vaddr) ==
    \/ vaddr = NullPtr
    \/ /\ vaddr \notin DOMAIN s.vaddr_map
       /\ ~has_entry(s, vaddr_to_vpn(vaddr))

\* C14: free, read_from_vaddr, write_to_vaddr, map_to_cpu and map_to_gpu
\* called with a null pointer or with an address that has no live mapping
\* leave the whole state unchanged; free(null) releases nothing while
\* allocations are live.
C14_UnmappedAddressChangesNothing ==
    \A vaddr \in AllAddrs, env \in Envs(State), n \in 1..MaxIoBytes :
        \A buf \in FillBuffers(n) :
            initialized /\ NoLiveMapping(State, vaddr)
                => /\ free(State, vaddr) = State
                   /\ read_from_vaddr(State, vaddr, buf, n, env).st = State
                   /\ write_to_vaddr(State, vaddr, buf, n, env) = State
                   /\ map_to_cpu(State, vaddr, env) = State
                   /\ map_to_gpu(State, vaddr, env) = State

\* the state initialize() leaves when it is the first call of the process
\* (the bytes of the host pool are left out: malloc does not clear them)
JustInitialized(s) ==
    LET i == initialize(ProcessStart, s.policy_kind) IN
    \A f \in DOMAIN s \ {"host_mem"} : s[f] = i[f]

\* C15: after initialize, p = allocate(n bytes) and free(p) with no other
\* operation, host_pages_used, device_pages_used and page_faults are 0.
C15_AllocateFreeSymmetry ==
    \A bytes \in AllocSizes \ {0}, pf \in BOOLEAN, env \in Envs(State) :
        LET A == allocate(State, bytes, pf, env)
            F == free(A.st, A.ret)
        IN JustInitialized(State)
           => /\ get_cpu_pages_used(F) = 0
              /\ get_gpu_pages_used(F) = 0
              /\ F.perf.total_page_faults = 0

\* every valid page and every dirty page of s is resident on one side at least
HasResidentCopy(s) ==
    \A v \in DOMAIN s.entries :
        s.entries[v].is_valid \/ s.entries[v].is_dirty
            => s.entries[v].resident_on_cpu \/ s.entries[v].resident_on_gpu

\* what evict_page_from_gpu() can draw in state s
EvictEnvs(s) == [t : MigTimes, pick : s.gpu_resident \cup {0}, junk : 0..MaxVpn]

\* C16: in every reachable state every valid page, and every dirty page, is
\* resident on the host or on the device, and this still holds after
\* evict_page_from_gpu() has taken a victim in that state.
C16_ValidPageHasResidentCopy ==
    /\ HasResidentCopy(State)
    /\ \A env \in EvictEnvs(State) :
           HasResidentCopy(evict_page_from_gpu(State, env))

\* a dirty page is resident on the device, where an eviction can take it
C16_DirtyPageOnDevice ==
    \E v \in DOMAIN entries :
        /\ entries[v].is_valid /\ entries[v].is_dirty
        /\ entries[v].resident_on_gpu
        /\ \E env \in EvictEnvs(State) :
               ~evict_page_from_gpu(State, env).entries[v].resident_on_gpu

\* the VPNs that n successive select_victim() calls return from state s, in
\* the order of the calls (the policy is LRU: no read is out of range)
RECURSIVE SuccessiveVictims(_, _)
SuccessiveVictims(s, n) ==
    IF n = 0 THEN <<>>
    ELSE LET r == select_victim(s, 0) IN
         <<r.ret>> \o SuccessiveVictims(r.st, n - 1)

\* C17: LRU returns the candidates in the order of their registration: with
\* the queue q of candidates registered so far, after on_page_allocated(a)
\* and on_page_allocated(b) the successive select_victim() calls return the
\* pages of q in order, then a, then b.
C17_LruEvictsInAllocationOrder ==
    IsLRU(State)
        => \A a \in Vpns, b \in Vpns :
               LET s2 == on_page_allocated(on_page_allocated(State, a), b)
               IN SuccessiveVictims(s2, Len(lru_queue) + 2)
                      = lru_queue \o <<a, b>>

\* two distinct pages are registered with the LRU policy and select_victim()
\* returns the one registered first
C17_TwoPagesRegistered ==
    /\ IsLRU(State)
    /\ Len(lru_queue) = 2
    /\ lru_queue[1] # lru_queue[2]
    /\ active_pages = {lru_queue[1], lru_queue[2]}
    /\ select_victim(State, 0).ret = lru_queue[1]

\* the VPNs in the LRU queue of s
QueuedPages(s) == {s.lru_queue[i] : i \in DOMAIN s.lru_queue}

\* C18: on_page_access(v) makes v the most recently used LRU candidate: while
\* another page is a candidate, the next select_victim() does not return v.
C18_AccessedPageIsNotNextVictim ==
    IsLRU(State)
        => \A v \in QueuedPages(State) :
               QueuedPages(State) # {v}
                   => select_victim(on_page_access(State, v), 0).ret # v

\* every VPN that some run of n successive select_victim() calls from state
\* s can return
RECURSIVE PossibleVictims(_, _)
PossibleVictims(s, n) ==
    IF n = 0 THEN {}
    ELSE UNION {LET r == select_victim(s, junk) IN
                {r.ret} \cup PossibleVictims(r.st, n - 1) : junk \in Junks(s)}

\* C19: for LRU and CLOCK alike, after on_page_freed(v) no select_victim()
\* call returns v, however many calls follow (v is not registered again;
\* v is not 0, the value that also stands for "no victim").
C19_FreedPageIsNeverVictim ==
    \A v \in Vpns \ {0} :
        v \notin PossibleVictims(on_page_freed(State, v), MaxVpn + 1)

\* the VPNs in the clock vector of s
ClockPages(s) == {s.clock_vec[i].vpn : i \in DOMAIN s.clock_vec}

\* the clock vector of s holds every VPN once and the hand points into it
ClockWellFormed(s) ==
    /\ ~IsLRU(s)
    /\ s.hand_pos < Len(s.clock_vec)
    /\ \A i \in DOMAIN s.clock_vec, j \in DOMAIN s.clock_vec :
           i # j => s.clock_vec[i].vpn # s.clock_vec[j].vpn

\* C20: CLOCK select_victim() removes from the candidate vector the entry it
\* returns: afterwards the returned VPN is no candidate and every other
\* candidate is still present.
C20_ClockRemovesReturnedVictim ==
    ClockWellFormed(State)
        => \A junk \in Junks(State) :
               LET r == select_victim(State, junk) IN
               ClockPages(r.st) = ClockPages(State) \ {r.ret}

\* C23: right after a successful initialize(), the first of the process or one
\* that follows a shutdown(), every performance counter is zero.
C23_InitializeResetsCounters ==
    \A p \in Policies :
        ~initialized => initialize(State, p).perf = PerfZero

\* C25: the candidates of the replacement policy are exactly the pages of the
\* residency ledger: every page resident on the device is a candidate and no
\* other page is.
C25_CandidatesAreDevicePages ==
    initialized => PolicyCandidates(State) = gpu_resident

\* the victim evict_page_from_gpu() settles on in state s: the policy's, or
\* the ledger's first element when the policy returns 0
eviction_victim(s, env) ==
    LET sel == select_victim(s, env.junk) IN
    IF sel.ret = 0 /\ Cardinality(sel.st.gpu_resident) > 0
    THEN ledger_begin(sel.st, env) ELSE sel.ret

\* map_to_gpu / resolve_page_fault call evict_page_from_gpu() in state s: a
\* page without a device slot asks for one and the pool has none
EvictionCalled(s) ==
    /\ s.initialized
    /\ get_available_gpu_pages(s) = 0
    /\ \E v \in DOMAIN s.entries :
           ~s.entries[v].resident_on_gpu /\ s.entries[v].gpu_address = 0

OccupiedDeviceSlots(s) == {i \in DOMAIN s.gpu_bitmap : s.gpu_bitmap[i]}

\* C27: in every reachable state the residency ledger is the set of live VPNs
\* with resident_on_gpu set, every ledger member holds an occupied device
\* slot of its own, and the ledger has as many members as the allocator has
\* occupied device slots.
C27_LedgerIsDeviceResidentSet ==
    /\ gpu_resident = {v \in DOMAIN entries : entries[v].resident_on_gpu}
    /\ \A v \in gpu_resident :
           /\ OwnDeviceSlot(State, v)
           /\ (entries[v].gpu_address - GpuBase) \div PageSize
                  \in OccupiedDeviceSlots(State)
    /\ Cardinality(gpu_resident) = Cardinality(OccupiedDeviceSlots(State))
    /\ Cardinality(gpu_resident) = gpu_allocated

\* free() has released the first device slot while the ledger still holds
\* the page of the second
C27_SlotReleasedLedgerKept ==
    /\ initialized
    /\ ~gpu_bitmap[0] /\ gpu_bitmap[1]
    /\ gpu_resident # {}

\* the host and device addresses a migration is called with
HostAddrs == {NullPtr} \cup {CpuPoolBase + i * PageSize : i \in 0..(CpuPoolPages - 1)}
DeviceAddrs == {0} \cup {GpuBase + i * PageSize : i \in 0..(GpuPoolPages - 1)}

\* C29: a migration, in either direction, for a VPN without a page-table
\* entry returns 0 and leaves the page table as it is: no entry created, no
\* flag and no address changed.
C29_MigrationOfMissingPageDropped ==
    \A vpn \in 0..MaxVpn, c \in HostAddrs, g \in DeviceAddrs, t \in MigTimes :
        LET up == migrate_cpu_to_gpu(State, vpn, c, g, t)
            down == migrate_gpu_to_cpu(State, vpn, g, c, t)
        IN initialized /\ ~has_entry(State, vpn)
           => /\ up.ret = 0 /\ up.st.entries = entries
              /\ down.ret = 0 /\ down.st.entries = entries

\* C30: a synchronous migration for a VPN with a live entry, called with the
\* addresses of a source and a destination slot, sets the destination's
\* residency flag and stores the destination address; host-to-device clears
\* is_dirty, device-to-host leaves is_dirty as it is.
C30_MigrationSetsDestination ==
    \A vpn \in DOMAIN entries, t \in MigTimes :
        \A c \in HostAddrs \ {NullPtr}, g \in DeviceAddrs :
            LET up == migrate_cpu_to_gpu(State, vpn, c, g, t)
                down == migrate_gpu_to_cpu(State, vpn, g, c, t)
            IN /\ up.st.entries[vpn].resident_on_gpu
               /\ up.st.entries[vpn].gpu_address = g
               /\ ~up.st.entries[vpn].is_dirty
               /\ g # 0
                   => /\ down.st.entries[vpn].resident_on_cpu
                      /\ down.st.entries[vpn].cpu_address = c
                      /\ down.st.entries[vpn].is_dirty = entries[vpn].is_dirty

\* a migration to the device has been counted, and a dirty page resident on
\* the host alone is there for the next one to act on
C30_DirtyPageAwaitsMigration ==
    /\ perf.cpu_to_gpu_migrations > 0
    /\ \E v \in DOMAIN entries :
           /\ entries[v].is_dirty
           /\ entries[v].resident_on_cpu
           /\ ~entries[v].resident_on_gpu


\* ------------------------------------------------------------ a TLB alone
\* The TLB object driven directly, as the unit tests drive it: the fixture
\* constructs and initializes a TLB, and the test calls its methods with
\* VPNs and entries of its choice.  The facade's variables stay as they are
\* at the start of the process.

\* cap on hits_ + misses_ and on the timestamps of the entries
MaxTlbLookups == 2
MaxTlbTime == 2

\* the latest timestamp held by an entry of the TLB of s
TlbNow(s) ==
    LET ts == {s.tlb_sets[i][j].timestamp :
                   <<i, j>> \in {p \in (DOMAIN s.tlb_sets) \X (1..TlbAssoc) :
                                     p[2] <= Len(s.tlb_sets[p[1]])}}
    IN IF ts = {} THEN 0 ELSE CHOOSE m \in ts : \A x \in ts : x <= m

\* what get_timestamp_us can return in state s: the microsecond of the
\* latest call or a later one
TlbTimes(s) == {t \in {TlbNow(s), TlbNow(s) + 1} : t <= MaxTlbTime}

\* the VPNs the test uses: three of one set and one of the other
TlbVpns == {0, 1, 2, 4}

\* the entries a caller hands to insert(vpn, entry): entry.vpn is vpn, as in
\* every call of the repository, and insert overwrites the timestamp
TlbEntries(vpn) ==
    [vpn : {vpn}, cpu_address : {CpuPoolBase}, gpu_address : {GpuBase},
     timestamp : {0}, valid : BOOLEAN]

TlbBounded(s) == s.tlb_hits + s.tlb_misses <= MaxTlbLookups

TlbStep(s) == \E r \in {s} : TlbBounded(r) /\ Commit(r)

TlbInitialize == Return(tlb_initialize(State))

TlbLookup ==
    \E vpn \in TlbVpns, t \in TlbTimes(State) :
        TlbStep(tlb_lookup(State, vpn, t).st)

TlbInsert ==
    \E vpn \in TlbVpns, t \in TlbTimes(State) :
        \E entry \in TlbEntries(vpn) :
            TlbStep(tlb_insert(State, vpn, entry, t))

TlbInvalidate == \E vpn \in TlbVpns : TlbStep(tlb_invalidate(State, vpn))

TlbFlush == TlbStep(tlb_flush(State))

TlbResetStats == TlbStep(tlb_reset_stats(State))

NextTlb ==
    \/ TlbInitialize
    \/ TlbLookup
    \/ TlbInsert
    \/ TlbInvalidate
    \/ TlbFlush
    \/ TlbResetStats

SpecTlb == Init /\ [][NextTlb]_vars

\* the set of vpn holds a valid entry for vpn
TlbHolds(s, vpn) ==
    \E i \in 1..Len(s.tlb_sets[get_set_index(vpn)]) :
        LET e == s.tlb_sets[get_set_index(vpn)][i] IN e.valid /\ e.vpn = vpn

\* hits_ and misses_ of r are those of s plus dh and dm
TlbCounted(s, r, dh, dm) ==
    /\ tlb_get_hits(r) = tlb_get_hits(s) + dh
    /\ tlb_get_misses(r) = tlb_get_misses(s) + dm

\* C24: hits + misses counts the lookups since the last reset_stats: every
\* lookup adds one to exactly one of the two counters, to hits when a valid
\* entry for the VPN is in its set and to misses otherwise; insert,
\* invalidate and flush leave both alone, and reset_stats zeroes both.
C24_LookupCountsHitOrMiss ==
    /\ \A vpn \in TlbVpns, t \in TlbTimes(State) :
           LET L == tlb_lookup(State, vpn, t) IN
           /\ L.ret <=> TlbHolds(State, vpn)
           /\ TlbCounted(State, L.st, IF L.ret THEN 1 ELSE 0,
                                      IF L.ret THEN 0 ELSE 1)
           /\ TlbCounted(State, tlb_invalidate(State, vpn), 0, 0)
           /\ \A entry \in TlbEntries(vpn) :
                  TlbCounted(State, tlb_insert(State, vpn, entry, t), 0, 0)
    /\ TlbCounted(State, tlb_flush(State), 0, 0)
    /\ tlb_get_hits(tlb_reset_stats(State)) = 0
    /\ tlb_get_misses(tlb_reset_stats(State)) = 0

C24_HitsAndMissesCounted ==
    /\ tlb_hits > 0
    /\ tlb_misses > 0
    /\ \E vpn \in TlbVpns : TlbHolds(State, vpn)
    /\ \E i \in DOMAIN tlb_sets : \E j \in 1..Len(tlb_sets[i]) : ~tlb_sets[i][j].valid


\* ------------------------------------------- a MigrationManager and its threads
\* A MigrationManager over a page table, with asynchronous migration on: the
\* constructor starts the worker threads, the owning thread enqueues jobs,
\* waits for them and destroys the manager.  Each step is one access to what
\* the threads share: the queue under its mutex, the atomic shutdown flag,
\* the condition variable.

\* cap on the length of migration_queue_
MaxQueue == 2
\* the pages the jobs are about
JobVpns == {0, 1}

\* MigrationManager(page_table, config): async_migration starts the workers
MigrationConstruct ==
    /\ owner_pc = "none"
    /\ owner_pc' = "idle"
    /\ worker_pc' = [w \in Workers |-> "loop"]
    /\ worker_job' = [w \in Workers |-> NoJob]
    /\ shutdown_flag' = FALSE
    /\ migration_queue' = <<>>
    /\ queue_mutex' = 0
    /\ UNCHANGED <<data_vars, caller_vars>>

\* the owner gives the page table an entry: PageTable::allocate_vpn_range
PageTableAllocate ==
    /\ owner_pc = "idle"
    /\ \E vpn \in JobVpns :
           /\ ~has_entry(State, vpn)
           /\ Store(allocate_vpn_range(State, vpn, 1).st)
    /\ UNCHANGED <<migration_vars, caller_vars>>

\* the push of async_migrate_cpu_to_gpu / async_migrate_gpu_to_cpu under
\* the mutex; the notify_one is still to come
Enqueue(job) ==
    /\ owner_pc = "idle"
    /\ queue_mutex = 0
    /\ Len(migration_queue) < MaxQueue
    /\ migration_queue' = Append(migration_queue, job)
    /\ owner_pc' = "notify"
    /\ UNCHANGED <<data_vars, caller_vars, shutdown_flag, queue_mutex,
                   worker_pc, worker_job>>

AsyncMigrateCpuToGpu ==
    \E vpn \in JobVpns :
        Enqueue([vpn |-> vpn, cpu_addr |-> CpuPoolBase, gpu_addr |-> GpuBase,
                 fn |-> "cpu_to_gpu"])

AsyncMigrateGpuToCpu ==
    \E vpn \in JobVpns :
        Enqueue([vpn |-> vpn, cpu_addr |-> CpuPoolBase, gpu_addr |-> GpuBase,
                 fn |-> "gpu_to_cpu"])

\* the workers blocked in queue_cv_.wait
Blocked == {w \in Workers : worker_pc[w] = "blocked"}

\* queue_cv_.notify_one(): one blocked worker, if there is any, is woken
NotifyOne ==
    /\ owner_pc = "notify"
    /\ owner_pc' = "idle"
    /\ IF Blocked = {} THEN UNCHANGED worker_pc
       ELSE \E w \in Blocked : worker_pc' = [worker_pc EXCEPT ![w] = "woken"]
    /\ UNCHANGED <<data_vars, caller_vars, shutdown_flag, migration_queue,
                   queue_mutex, worker_job>>

\* one round of the loop of wait_for_migrations: the queue is looked at
\* under the mutex, and an empty queue ends the wait
WaitForMigrations ==
    /\ owner_pc \in {"idle", "wait"}
    /\ queue_mutex = 0
    /\ owner_pc' = IF migration_queue = <<>> THEN "returned" ELSE "wait"
    /\ UNCHANGED <<data_vars, caller_vars, shutdown_flag, migration_queue,
                   queue_mutex, worker_pc, worker_job>>

\* the caller of wait_for_migrations goes on
WaitReturned ==
    /\ owner_pc = "returned"
    /\ owner_pc' = "idle"
    /\ UNCHANGED <<data_vars, caller_vars, shutdown_flag, migration_queue,
                   queue_mutex, worker_pc, worker_job>>

\* ~MigrationManager: shutdown_ = true, stored without the mutex
DestructorSetsFlag ==
    /\ owner_pc = "idle"
    /\ shutdown_flag' = TRUE
    /\ owner_pc' = "dtor_notify"
    /\ UNCHANGED <<data_vars, caller_vars, migration_queue, queue_mutex,
                   worker_pc, worker_job>>

\* ~MigrationManager: queue_cv_.notify_all() wakes the workers blocked now
DestructorNotifiesAll ==
    /\ owner_pc = "dtor_notify"
    /\ worker_pc' = [w \in Workers |->
                        IF w \in Blocked THEN "woken" ELSE worker_pc[w]]
    /\ owner_pc' = "dtor_join"
    /\ UNCHANGED <<data_vars, caller_vars, shutdown_flag, migration_queue,
                   queue_mutex, worker_job>>

\* ~MigrationManager: the joins return once every worker has left its function
DestructorJoins ==
    /\ owner_pc = "dtor_join"
    /\ \A w \in Workers : worker_pc[w] = "done"
    /\ owner_pc' = "destroyed"
    /\ UNCHANGED <<data_vars, caller_vars, shutdown_flag, migration_queue,
                   queue_mutex, worker_pc, worker_job>>

\* while (!shutdown_)
WorkerLoop(w) ==
    /\ worker_pc[w] = "loop"
    /\ worker_pc' = [worker_pc EXCEPT ![w] = IF shutdown_flag THEN "done" ELSE "lock"]
    /\ UNCHANGED <<data_vars, caller_vars, shutdown_flag, migration_queue,
                   queue_mutex, worker_job, owner_pc>>

\* the mutex is taken: by the unique_lock, or by a woken wait
WorkerLock(w) ==
    /\ worker_pc[w] \in {"lock", "woken"}
    /\ queue_mutex = 0
    /\ queue_mutex' = w
    /\ worker_pc' = [worker_pc EXCEPT ![w] = "predicate"]
    /\ UNCHANGED <<data_vars, caller_vars, shutdown_flag, migration_queue,
                   worker_job, owner_pc>>

\* queue_cv_.wait(lock, pred) evaluates pred with the mutex held
WorkerPredicate(w) ==
    /\ worker_pc[w] = "predicate"
    /\ worker_pc' = [worker_pc EXCEPT ![w] =
                        IF migration_queue # <<>> \/ shutdown_flag
                        THEN "dequeue" ELSE "wait"]
    /\ UNCHANGED <<data_vars, caller_vars, shutdown_flag, migration_queue,
                   queue_mutex, worker_job, owner_pc>>

\* pred was false: the wait releases the mutex and blocks until notified
WorkerWait(w) ==
    /\ worker_pc[w] = "wait"
    /\ queue_mutex' = 0
    /\ worker_pc' = [worker_pc EXCEPT ![w] = "blocked"]
    /\ UNCHANGED <<data_vars, caller_vars, shutdown_flag, migration_queue,
                   worker_job, owner_pc>>

\* a wait may wake with no notification
SpuriousWakeup(w) ==
    /\ worker_pc[w] = "blocked"
    /\ worker_pc' = [worker_pc EXCEPT ![w] = "woken"]
    /\ UNCHANGED <<data_vars, caller_vars, shutdown_flag, migration_queue,
                   queue_mutex, worker_job, owner_pc>>

\* after the wait: break, take the front job, or continue; the block ends
\* and the mutex is released
WorkerDequeue(w) ==
    /\ worker_pc[w] = "dequeue"
    /\ queue_mutex' = 0
    /\ IF shutdown_flag /\ migration_queue = <<>>
       THEN /\ worker_pc' = [worker_pc EXCEPT ![w] = "done"]
            /\ UNCHANGED <<migration_queue, worker_job>>
       ELSE IF migration_queue # <<>>
       THEN /\ worker_job' = [worker_job EXCEPT ![w] = Head(migration_queue)]
            /\ migration_queue' = Tail(migration_queue)
            /\ worker_pc' = [worker_pc EXCEPT ![w] = "run"]
       ELSE /\ worker_pc' = [worker_pc EXCEPT ![w] = "loop"]
            /\ UNCHANGED <<migration_queue, worker_job>>
    /\ UNCHANGED <<data_vars, caller_vars, shutdown_flag, owner_pc>>

\* what migration_job.second() does to the data
run_job(s, job) ==
    IF job.fn = "cpu_to_gpu"
    THEN migrate_cpu_to_gpu(s, job.vpn, job.cpu_addr, job.gpu_addr, 1).st
    ELSE IF job.fn = "gpu_to_cpu"
    THEN migrate_gpu_to_cpu(s, job.vpn, job.gpu_addr, job.cpu_addr, 1).st
    ELSE s

\* if (migration_job.second) migration_job.second(); the job ends with the
\* iteration
WorkerRun(w) ==
    /\ worker_pc[w] = "run"
    /\ Store(run_job(State, worker_job[w]))
    /\ worker_job' = [worker_job EXCEPT ![w] = NoJob]
    /\ worker_pc' = [worker_pc EXCEPT ![w] = "loop"]
    /\ UNCHANGED <<caller_vars, shutdown_flag, migration_queue, queue_mutex,
                   owner_pc>>

WorkerStep(w) ==
    \/ WorkerLoop(w)
    \/ WorkerLock(w)
    \/ WorkerPredicate(w)
    \/ WorkerWait(w)
    \/ WorkerDequeue(w)
    \/ WorkerRun(w)

Destructor ==
    \/ DestructorSetsFlag
    \/ DestructorNotifiesAll
    \/ DestructorJoins

NextMigration ==
    \/ MigrationConstruct
    \/ PageTableAllocate
    \/ AsyncMigrateCpuToGpu
    \/ AsyncMigrateGpuToCpu
    \/ NotifyOne
    \/ WaitForMigrations
    \/ WaitReturned
    \/ Destructor
    \/ \E w \in Workers : WorkerStep(w)
    \/ \E w \in Workers : SpuriousWakeup(w)

SpecMigration == Init /\ [][NextMigration]_vars

\* a worker that can take a step takes one in the end, and so does a
\* destructor that has begun; nothing promises a wakeup that was not notified
SpecMigrationFair ==
    /\ SpecMigration
    /\ \A w \in Workers : WF_vars(WorkerStep(w))
    /\ WF_vars(DestructorNotifiesAll \/ DestructorJoins)

\* the jobs a worker has taken from the queue and not yet run
JobsInHand == {worker_job[w] : w \in {x \in Workers : worker_pc[x] = "run"}}

\* C21: when wait_for_migrations returns, every job enqueued before the call
\* has been applied to the page table: none is left in the queue and none is
\* in the hands of a worker that has dequeued it and not yet run it.
C21_WaitReturnsAfterJobsApplied ==
    owner_pc = "returned" =>
        /\ migration_queue = <<>>
        /\ JobsInHand = {}

\* C28: once the destructor has set the flag, every worker leaves its loop
\* and the joins return.
C28_DestructionTerminates ==
    (owner_pc = "dtor_notify") ~> (owner_pc = "destroyed")


\* ------------------------------------------------- threads calling the facade
\* Several threads call the public operations of the one facade object.
\* An operation that takes manager_mutex_ is two steps or more: the lock is
\* taken, then the body runs and the lock is released at its return; an
\* operation that takes no lock is a step per access to what is shared.
\* The workers of the facade's MigrationManager have no job to run: the
\* facade enqueues none.

\* no thread has brought the process down
Running == \A c \in Callers : caller_pc[c] # "crashed"

HoldsWrite(c) == manager_mutex.writer = c

HoldsRead(c) == c \in manager_mutex.readers

\* std::unique_lock<std::shared_mutex> lock(manager_mutex_) at the head of op
LockWrite(c, op) ==
    /\ Running
    /\ caller_pc[c] = "idle"
    /\ manager_mutex.writer = 0
    /\ manager_mutex.readers = {}
    /\ manager_mutex' = [manager_mutex EXCEPT !.writer = c]
    /\ caller_pc' = [caller_pc EXCEPT ![c] = op]
    /\ UNCHANGED <<data_vars, migration_vars>>

\* std::shared_lock<std::shared_mutex> lock(manager_mutex_) at the head of op
LockRead(c, op) ==
    /\ Running
    /\ caller_pc[c] = "idle"
    /\ manager_mutex.writer = 0
    /\ manager_mutex' = [manager_mutex EXCEPT !.readers = @ \cup {c}]
    /\ caller_pc' = [caller_pc EXCEPT ![c] = op]
    /\ UNCHANGED <<data_vars, migration_vars>>

\* the operation of c returns: its lock, if it holds one, is released
ReturnFrom(c) ==
    /\ manager_mutex' = [writer |-> IF HoldsWrite(c) THEN 0 ELSE manager_mutex.writer,
                         readers |-> manager_mutex.readers \ {c}]
    /\ caller_pc' = [caller_pc EXCEPT ![c] = "idle"]
    /\ UNCHANGED migration_vars

CallInitialize(c) == LockWrite(c, "initialize")

InitializeLocked(c) ==
    /\ Running
    /\ caller_pc[c] = "initialize"
    /\ \E p \in Policies : Store(initialize(State, p))
    /\ ReturnFrom(c)

CallShutdown(c) == LockWrite(c, "shutdown")

\* shutdown up to migration_manager_.reset()
ShutdownLocked(c) ==
    /\ Running
    /\ caller_pc[c] = "shutdown"
    /\ IF ~initialized
       THEN ReturnFrom(c)
       ELSE /\ caller_pc' = [caller_pc EXCEPT ![c] = "shutdown_rest"]
            /\ UNCHANGED <<manager_mutex, migration_vars>>
    /\ UNCHANGED data_vars

\* shutdown from replacement_policy_.reset() on
ShutdownRest(c) ==
    /\ Running
    /\ caller_pc[c] = "shutdown_rest"
    /\ Store(shutdown(State))
    /\ ReturnFrom(c)

CallAllocate(c) == next_vpn < MaxVpn /\ LockWrite(c, "allocate")

AllocateLocked(c) ==
    /\ Running
    /\ caller_pc[c] = "allocate"
    /\ \E env \in Envs(State) : Store(allocate(State, PageSize, FALSE, env).st)
    /\ ReturnFrom(c)

CallGetGpuPagesUsed(c) == LockRead(c, "get_gpu_pages_used")

GetGpuPagesUsedLocked(c) ==
    /\ Running
    /\ caller_pc[c] = "get_gpu_pages_used"
    /\ UNCHANGED data_vars
    /\ ReturnFrom(c)

\* sync_all_migrations: if (!initialized_) return; read with no lock held
CallSyncAllMigrations(c) ==
    /\ Running
    /\ caller_pc[c] = "idle"
    /\ initialized
    /\ caller_pc' = [caller_pc EXCEPT ![c] = "sync_all_migrations"]
    /\ UNCHANGED <<data_vars, migration_vars, manager_mutex>>

\* migration_manager_ points to a MigrationManager
MigrationManagerAlive ==
    initialized /\ \A c \in Callers : caller_pc[c] # "shutdown_rest"

\* sync_all_migrations: migration_manager_->wait_for_migrations(); through
\* a null pointer the call is undefined: it may return or end the process
SyncWaitForMigrations(c) ==
    /\ Running
    /\ caller_pc[c] = "sync_all_migrations"
    /\ \E outcome \in IF MigrationManagerAlive THEN {"idle"} ELSE {"idle", "crashed"} :
           caller_pc' = [caller_pc EXCEPT ![c] = outcome]
    /\ UNCHANGED <<data_vars, migration_vars, manager_mutex>>

CallResetCounters(c) ==
    /\ Running
    /\ caller_pc[c] = "idle"
    /\ caller_pc' = [caller_pc EXCEPT ![c] = "reset_counters"]
    /\ UNCHANGED <<data_vars, migration_vars, manager_mutex>>

\* perf_counters_.reset()
ResetCountersBody(c) ==
    /\ Running
    /\ caller_pc[c] = "reset_counters"
    /\ Store(reset_counters(State))
    /\ ReturnFrom(c)

NextCallers ==
    \E c \in Callers :
        \/ CallInitialize(c)
        \/ InitializeLocked(c)
        \/ CallShutdown(c)
        \/ ShutdownLocked(c)
        \/ ShutdownRest(c)
        \/ CallAllocate(c)
        \/ AllocateLocked(c)
        \/ CallGetGpuPagesUsed(c)
        \/ GetGpuPagesUsedLocked(c)
        \/ CallSyncAllMigrations(c)
        \/ SyncWaitForMigrations(c)
        \/ CallResetCounters(c)
        \/ ResetCountersBody(c)

SpecCallers == Init /\ [][NextCallers]_vars

\* c is inside a public operation
InOperation(c) == caller_pc[c] \notin {"idle", "crashed"}

\* c is at a point of a public operation that reads or uses a subsystem
UsesSubsystems(c) ==
    caller_pc[c] \in {"allocate", "get_gpu_pages_used", "sync_all_migrations"}

\* c is inside initialize or shutdown: the subsystems are being constructed
\* or destroyed
Rebuilding(c) == caller_pc[c] \in {"initialize", "shutdown", "shutdown_rest"}

\* C22: every public operation runs holding the facade lock, so no public
\* operation uses the subsystems while another thread's initialize or
\* shutdown constructs or destroys them.
C22_PublicOperationsHoldLock ==
    \A c \in Callers :
        /\ InOperation(c) => HoldsWrite(c) \/ HoldsRead(c)
        /\ UsesSubsystems(c) => \A d \in Callers \ {c} : ~Rebuilding(d)


\* --------------------------------------------------------- a PageTable alone
\* The PageTable object driven directly, as the unit tests drive it: the
\* fixture constructs and initializes a PageTable, and the test allocates
\* and deallocates VPN ranges of its choice and marks pages resident.

\* longest range handed to allocate_vpn_range / deallocate_vpn_range
MaxRange == 2

RangeSizes == 0..MaxRange

PtAllocateVpnRange ==
    \E vpn_start \in Vpns, num_pages \in RangeSizes :
        Return(allocate_vpn_range(State, vpn_start, num_pages).st)

PtDeallocateVpnRange ==
    \E vpn_start \in Vpns, num_pages \in RangeSizes :
        Return(deallocate_vpn_range(State, vpn_start, num_pages))

PtSetCpuResident ==
    \E vpn \in Vpns : Return(set_cpu_resident(State, vpn, CpuPoolBase))

PtSetGpuResident ==
    \E vpn \in Vpns : Return(set_gpu_resident(State, vpn, GpuBase))

NextPageTable ==
    \/ PtAllocateVpnRange
    \/ PtDeallocateVpnRange
    \/ PtSetCpuResident
    \/ PtSetGpuResident

SpecPageTable == Init /\ [][NextPageTable]_vars

\* the VPNs of the range [vpn_start, vpn_start + num_pages)
VpnRange(vpn_start, num_pages) == vpn_start..(vpn_start + num_pages - 1)

\* C31: allocate_vpn_range returns false if a VPN of the range has a live
\* entry, never overwrites an existing entry, and on failure leaves the page
\* table as it was: no entry of the range is newly created.
C31_FailedRangeLeavesTable ==
    \A vpn_start \in Vpns, num_pages \in RangeSizes :
        LET r == allocate_vpn_range(State, vpn_start, num_pages) IN
        /\ (\E v \in VpnRange(vpn_start, num_pages) : has_entry(State, v))
               => ~r.ret
        /\ \A v \in DOMAIN entries :
               has_entry(r.st, v) /\ r.st.entries[v] = entries[v]
        /\ ~r.ret => r.st.entries = entries


\* lookup(vpn) in state s hits and yields the addresses of entry
TlbReturns(s, vpn, entry) ==
    \A t \in TlbTimes(s) :
        LET L == tlb_lookup(s, vpn, t) IN
        /\ L.ret
        /\ L.out.cpu_address = entry.cpu_address
        /\ L.out.gpu_address = entry.gpu_address

\* lookup(vpn) in state s misses
TlbMisses(s, vpn) == \A t \in TlbTimes(s) : ~tlb_lookup(s, vpn, t).ret

\* C32: after insert(vpn, e), into a set without vpn or over the entry of
\* vpn, lookup(vpn) returns true with e's addresses; after invalidate(vpn)
\* or flush(), lookup(vpn) returns false.
C32_InsertedEntryIsFound ==
    \A vpn \in TlbVpns :
        /\ \A t \in TlbTimes(State), e \in TlbEntries(vpn) :
               TlbReturns(tlb_insert(State, vpn, e, t), vpn, e)
        /\ TlbMisses(tlb_invalidate(State, vpn), vpn)
        /\ TlbMisses(tlb_flush(State), vpn)


\* the VPNs of the entries of a set, in the order of the set
SetVpns(set) == [i \in 1..Len(set) |-> set[i].vpn]

\* position k of a set holds the smallest timestamp, and no earlier
\* position holds the same one
LeastRecentlyUsed(set, k) ==
    /\ \A j \in 1..Len(set) : set[k].timestamp <= set[j].timestamp
    /\ \A j \in 1..(k - 1) : set[j].timestamp # set[k].timestamp

\* C33: every set holds at most `associativity` entries and at most one
\* entry per VPN; an insert of an absent VPN into a full set removes the
\* entry with the smallest timestamp (the earliest-inserted on a tie), keeps
\* every other entry and the other sets, and installs the new entry.
C33_SetsBoundedAndLruEvicted ==
    /\ \A i \in DOMAIN tlb_sets :
           /\ Len(tlb_sets[i]) <= TlbAssoc
           /\ \A j, k \in 1..Len(tlb_sets[i]) :
                  tlb_sets[i][j].vpn = tlb_sets[i][k].vpn => j = k
    /\ \A vpn \in TlbVpns, t \in TlbTimes(State) :
           \A e \in TlbEntries(vpn) :
               LET i == get_set_index(vpn)
                   set == tlb_sets[i]
                   after == tlb_insert(State, vpn, e, t).tlb_sets
               IN Len(set) = TlbAssoc /\ vpn \notin {set[j].vpn : j \in 1..Len(set)}
                      => /\ \E k \in 1..Len(set) :
                                /\ LeastRecentlyUsed(set, k)
                                /\ after[i] = Append(SeqErase(set, k),
                                                     [e EXCEPT !.timestamp = t,
                                                               !.valid = TRUE])
                         /\ \A o \in DOMAIN tlb_sets \ {i} : after[o] = tlb_sets[o]

\* a full set whose least recently used entry is not its first, and a VPN
\* of that set with no entry in it
C33_FullSetOldestNotFirst ==
    \E vpn \in TlbVpns :
        LET set == tlb_sets[get_set_index(vpn)] IN
        /\ Len(set) = TlbAssoc
        /\ vpn \notin {set[j].vpn : j \in 1..Len(set)}
        /\ set[TlbAssoc].timestamp < set[1].timestamp


\* lookups counted by the TLB of s
TlbLookups(s) == tlb_get_hits(s) + tlb_get_misses(s)

\* state r follows an access to page vpn made in state s that consulted the
\* TLB: one more lookup is counted and the set of vpn holds its translation
TlbConsulted(s, r, vpn) ==
    /\ TlbLookups(r) > TlbLookups(s)
    /\ TlbFind(r.tlb_sets[get_set_index(vpn)], vpn) # 0

\* C34: each touch_page, read_from_vaddr, write_to_vaddr and map_to_* on a
\* mapped address performs a TLB lookup, so hits + misses grows, and the
\* translation resolved on a miss is inserted into the TLB.
C34_AccessConsultsTlb ==
    initialized =>
        \A vaddr \in Addrs, env \in Envs(State) :
            LET vpn == vaddr_to_vpn(vaddr) IN
            has_entry(State, vpn) =>
                /\ \A w \in BOOLEAN :
                       TlbConsulted(State, touch_page(State, vaddr, w, env), vpn)
                /\ TlbConsulted(State, map_to_cpu(State, vaddr, env), vpn)
                /\ TlbConsulted(State, map_to_gpu(State, vaddr, env), vpn)
                /\ TlbConsulted(State,
                                read_from_vaddr(State, vaddr, <<1>>, 1, env).st, vpn)
                /\ \A buf \in FillBuffers(1) :
                       TlbConsulted(State,
                                    write_to_vaddr(State, vaddr, buf, 1, env), vpn)


\* ----------------------------------------------------- a PageAllocator alone
\* The PageAllocator object driven directly, as the unit tests drive it: the
\* fixture constructs and initializes an allocator over pools of its choice,
\* and the test allocates pages and hands pointers back, good ones and bad.

\* largest pool, in pages, given to a PageAllocator
MaxPoolPages == 3

PoolSizes == 1..MaxPoolPages

\* PageAllocator(config) followed by initialize(): pools of cpu_pages and
\* gpu_pages pages, nothing allocated
allocator_construct(s, cpu_pages, gpu_pages) ==
    [s EXCEPT !.cpu_bitmap = FreshBitmap(cpu_pages),
              !.gpu_bitmap = FreshBitmap(gpu_pages),
              !.cpu_allocated = 0,
              !.gpu_allocated = 0,
              !.host_mem = [b \in 0..(cpu_pages * PageSize - 1) |-> Uninit]]

\* the pointers a caller hands to deallocate_cpu_page: null, the byte before
\* the pool, every byte of the largest pool, and the bytes after it
CpuPointers == {NullPtr} \cup ((CpuPoolBase - 1)..(CpuPoolBase + MaxPoolPages * PageSize + 1))

\* the addresses a caller hands to deallocate_gpu_page
GpuAddresses == {0} \cup ((GpuBase - 1)..(GpuBase + MaxPoolPages * PageSize + 1))

AllocatorConstruct ==
    \E cpu_pages \in PoolSizes, gpu_pages \in PoolSizes :
        Return(allocator_construct(State, cpu_pages, gpu_pages))

AllocateCpuPage == Return(allocate_cpu_page(State).st)

DeallocateCpuPage == \E ptr \in CpuPointers : Return(deallocate_cpu_page(State, ptr))

AllocateGpuPage == Return(allocate_gpu_page(State).st)

DeallocateGpuPage ==
    \E gpu_addr \in GpuAddresses : Return(deallocate_gpu_page(State, gpu_addr))

NextAllocator ==
    \/ AllocatorConstruct
    \/ AllocateCpuPage
    \/ DeallocateCpuPage
    \/ AllocateGpuPage
    \/ DeallocateGpuPage

SpecAllocator == Init /\ [][NextAllocator]_vars

\* the occupied slots of a bitmap
Occupied(bitmap) == {i \in DOMAIN bitmap : bitmap[i]}

\* ptr lies in an occupied slot of the host pool of s
LiveCpuSlot(s, ptr) ==
    /\ ptr >= CpuPoolBase
    /\ (ptr - CpuPoolBase) \div PageSize \in Occupied(s.cpu_bitmap)

\* gpu_addr lies in an occupied slot of the device pool of s
LiveGpuSlot(s, gpu_addr) ==
    /\ gpu_addr >= GpuBase
    /\ (gpu_addr - GpuBase) \div PageSize \in Occupied(s.gpu_bitmap)

\* C35: for each pool, available = total - occupied slots; a successful
\* allocate lowers available by one, deallocating a live slot raises it by
\* one, and deallocating a pointer outside the pool or in a free slot changes
\* neither the bitmap nor the count.
C35_AvailableMatchesBitmap ==
    /\ get_available_cpu_pages(State)
           = get_total_cpu_pages(State) - Cardinality(Occupied(cpu_bitmap))
    /\ get_available_gpu_pages(State)
           = get_total_gpu_pages(State) - Cardinality(Occupied(gpu_bitmap))
    /\ LET a == allocate_cpu_page(State) IN
       IF a.ret # NullPtr
       THEN get_available_cpu_pages(a.st) = get_available_cpu_pages(State) - 1
       ELSE a.st.cpu_bitmap = cpu_bitmap /\ a.st.cpu_allocated = cpu_allocated
    /\ LET a == allocate_gpu_page(State) IN
       IF a.ret # 0
       THEN get_available_gpu_pages(a.st) = get_available_gpu_pages(State) - 1
       ELSE a.st.gpu_bitmap = gpu_bitmap /\ a.st.gpu_allocated = gpu_allocated
    /\ \A ptr \in CpuPointers :
           LET d == deallocate_cpu_page(State, ptr) IN
           IF LiveCpuSlot(State, ptr)
           THEN get_available_cpu_pages(d) = get_available_cpu_pages(State) + 1
           ELSE d.cpu_bitmap = cpu_bitmap /\ d.cpu_allocated = cpu_allocated
    /\ \A gpu_addr \in GpuAddresses :
           LET d == deallocate_gpu_page(State, gpu_addr) IN
           IF LiveGpuSlot(State, gpu_addr)
           THEN get_available_gpu_pages(d) = get_available_gpu_pages(State) + 1
           ELSE d.gpu_bitmap = gpu_bitmap /\ d.gpu_allocated = gpu_allocated

\* both pools hold an occupied slot below a free one
C35_PoolsPartlyOccupied ==
    /\ \E i, j \in DOMAIN cpu_bitmap : i < j /\ ~cpu_bitmap[i] /\ cpu_bitmap[j]
    /\ \E i, j \in DOMAIN gpu_bitmap : i < j /\ ~gpu_bitmap[i] /\ gpu_bitmap[j]


----------------------------------------------------------------------------
\* A migration job step by step, beside a thread that frees entries.
\* lookup_entry takes the table's shared lock for the find alone and returns
\* &it->second; what the worker does with the pointer is outside every lock.

\* the owner frees an entry: PageTable::deallocate_vpn_range erases the node.
\* A worker that holds the pointer lookup_entry gave it for that VPN is left
\* with a pointer to a destroyed node.
PageTableDeallocate ==
    /\ owner_pc = "idle"
    /\ \E vpn \in JobVpns :
           /\ has_entry(State, vpn)
           /\ Store(deallocate_vpn_range(State, vpn, 1))
           /\ worker_pc' = [w \in Workers |->
                               IF worker_pc[w] = "write" /\ worker_job[w].vpn = vpn
                               THEN "dangling" ELSE worker_pc[w]]
    /\ UNCHANGED <<caller_vars, shutdown_flag, migration_queue, queue_mutex,
                   worker_job, owner_pc>>

\* the job is over and the loop goes on
JobEnds(w) ==
    /\ worker_job' = [worker_job EXCEPT ![w] = NoJob]
    /\ worker_pc' = [worker_pc EXCEPT ![w] = "loop"]

\* the head of the job: the tests of the addresses, and the first
\* lookup_entry. In migrate_cpu_to_gpu its pointer is only tested; in
\* migrate_gpu_to_cpu it is the pointer that is written through.
WorkerCheck(w) ==
    /\ worker_pc[w] = "run"
    /\ LET job == worker_job[w] IN
       IF job.fn = "cpu_to_gpu"
       THEN IF job.cpu_addr = NullPtr \/ ~has_entry(State, job.vpn)
            THEN JobEnds(w)
            ELSE /\ worker_pc' = [worker_pc EXCEPT ![w] = "sleep"]
                 /\ UNCHANGED worker_job
       ELSE IF job.cpu_addr = NullPtr \/ job.gpu_addr = 0
                 \/ ~has_entry(State, job.vpn)
            THEN JobEnds(w)
            ELSE /\ worker_pc' = [worker_pc EXCEPT ![w] = "write"]
                 /\ UNCHANGED worker_job
    /\ UNCHANGED <<data_vars, caller_vars, shutdown_flag, migration_queue,
                   queue_mutex, owner_pc>>

\* migrate_cpu_to_gpu after its sleep: the second lookup_entry
WorkerLookup(w) ==
    /\ worker_pc[w] = "sleep"
    /\ IF has_entry(State, worker_job[w].vpn)
       THEN /\ worker_pc' = [worker_pc EXCEPT ![w] = "write"]
            /\ UNCHANGED worker_job
       ELSE JobEnds(w)
    /\ UNCHANGED <<data_vars, caller_vars, shutdown_flag, migration_queue,
                   queue_mutex, owner_pc>>

\* the stores through the pointer, into the entry of VPN v
write_job(s, job, v) ==
    IF job.fn = "cpu_to_gpu"
    THEN [s EXCEPT !.entries[v].resident_on_gpu = TRUE,
                   !.entries[v].gpu_address = job.gpu_addr,
                   !.entries[v].is_dirty = FALSE]
    ELSE [s EXCEPT !.entries[v].resident_on_cpu = TRUE,
                   !.entries[v].cpu_address = job.cpu_addr]

\* the stores reach the entry the pointer was taken from
WorkerWrite(w) ==
    /\ worker_pc[w] = "write"
    /\ Store(write_job(State, worker_job[w], worker_job[w].vpn))
    /\ JobEnds(w)
    /\ UNCHANGED <<caller_vars, shutdown_flag, migration_queue, queue_mutex,
                   owner_pc>>

\* the stores go through a pointer to a destroyed node, which is undefined:
\* they may fall into memory nothing uses, into the node of an entry made
\* since, or end the process
WorkerWriteFreed(w) ==
    /\ worker_pc[w] = "dangling"
    /\ \/ /\ JobEnds(w)
          /\ UNCHANGED <<data_vars, owner_pc>>
       \/ /\ \E v \in DOMAIN entries : Store(write_job(State, worker_job[w], v))
          /\ JobEnds(w)
          /\ UNCHANGED owner_pc
       \/ /\ worker_pc' = [x \in Workers |-> "crashed"]
          /\ owner_pc' = "crashed"
          /\ UNCHANGED <<data_vars, worker_job>>
    /\ UNCHANGED <<caller_vars, shutdown_flag, migration_queue, queue_mutex>>

WorkerJobStep(w) ==
    \/ WorkerLoop(w)
    \/ WorkerLock(w)
    \/ WorkerPredicate(w)
    \/ WorkerWait(w)
    \/ WorkerDequeue(w)
    \/ WorkerCheck(w)
    \/ WorkerLookup(w)
    \/ WorkerWrite(w)
    \/ WorkerWriteFreed(w)

NextMigrationFree ==
    \/ MigrationConstruct
    \/ PageTableAllocate
    \/ PageTableDeallocate
    \/ AsyncMigrateCpuToGpu
    \/ AsyncMigrateGpuToCpu
    \/ NotifyOne
    \/ \E w \in Workers : WorkerJobStep(w)

SpecMigrationFree == Init /\ [][NextMigrationFree]_vars

\* C37: a migration worker never writes to a page-table entry that a
\* concurrent deallocate_vpn_range has removed: between its lookup of the
\* VPN and its stores of the flags and the address, the entry stays.
C37_WorkerWritesLiveEntry ==
    \A w \in Workers : worker_pc[w] # "dangling"


----------------------------------------------------------------------------
\* A write and the other allocations.

\* n bytes of the value d
Filled(n, d) == [k \in 1..n |-> d]

\* the first page of the allocation at base b, as read_from_vaddr gives it
FirstPage(s, b) == read_from_vaddr(s, b, NoData(PageSize), PageSize, Env0)

\* C38: write_to_vaddr(vaddr, buf, n) on one allocation changes only host
\* slots of that allocation: for any other live allocation read_from_vaddr
\* returns the same bytes before and after the write, for every n up to the
\* size of the written allocation and every order in which host slots were
\* allocated and freed.  The written allocation is the one allocate() returns
\* next; the other allocation holds known bytes before the write.
C38_WriteLeavesOtherAllocations ==
    \A bytes \in AllocSizes \ {0}, b \in DOMAIN vaddr_map :
        LET A == allocate(State, bytes, FALSE, Env0)
            B == write_to_vaddr(A.st, b, Filled(PageSize, 2), PageSize, Env0)
            before == FirstPage(B, b)
        IN AllocSucceeds(State, bytes) /\ b # A.ret
           => \A n \in 1..align_to_page(bytes) :
                  LET W == write_to_vaddr(before.st, A.ret, Filled(n, 1), n, Env0)
                  IN InPool(before.st, A.ret, n)
                     => FirstPage(W, b).ret = before.ret


----------------------------------------------------------------------------
\* Slots and the entries that refer to them.

\* the live VPNs whose entry holds a host address / a device address
HostMapped == {v \in DOMAIN entries : entries[v].cpu_address # NullPtr}
DeviceMapped == {v \in DOMAIN entries : entries[v].gpu_address # 0}

\* the index of the slot an address lies in
HostSlot(ptr) == (ptr - CpuPoolBase) \div PageSize
DeviceSlot(addr) == (addr - GpuBase) \div PageSize

\* C39: in every reachable state no host slot and no device slot is referred
\* to by the page-table entries of two different live VPNs, and every slot a
\* live entry refers to is marked occupied in the allocator's bitmap.
C39_SlotsExclusiveAndOccupied ==
    /\ \A v \in HostMapped, w \in HostMapped :
           v # w => entries[v].cpu_address # entries[w].cpu_address
    /\ \A v \in DeviceMapped, w \in DeviceMapped :
           v # w => entries[v].gpu_address # entries[w].gpu_address
    /\ \A v \in HostMapped :
           /\ HostSlot(entries[v].cpu_address) \in DOMAIN cpu_bitmap
           /\ cpu_bitmap[HostSlot(entries[v].cpu_address)]
    /\ \A v \in DeviceMapped :
           /\ DeviceSlot(entries[v].gpu_address) \in DOMAIN gpu_bitmap
           /\ gpu_bitmap[DeviceSlot(entries[v].gpu_address)]


\* after an eviction, two live pages hold host slots and two hold device slots
C39_SlotsHeldAfterEviction ==
    /\ perf.evictions > 0
    /\ Cardinality(HostMapped) >= 2
    /\ Cardinality(DeviceMapped) >= 2
    /\ \E i \in DOMAIN cpu_bitmap : ~cpu_bitmap[i]


----------------------------------------------------------------------------
\* The CLOCK hand.

\* C40: in the CLOCK policy, after any sequence of on_page_allocated,
\* on_page_access, on_page_freed and select_victim, the hand is a valid index
\* of the candidate vector whenever the vector is non-empty, so select_victim
\* never reads or erases an element at or past the end of the vector.
C40_ClockHandInVector ==
    ~IsLRU(State) /\ clock_vec # <<>> => hand_pos < Len(clock_vec)

============================================================================
